---- MODULE Spec2Model ----
(***************************************************************************)
(* foo_nsync: the playlist synchronisation engine (sync_manager), the      *)
(* configuration store (sync_config), the preferences page that edits it,  *)
(* the manifest parser and the playlist reconciler.                        *)
(*                                                                         *)
(* Conventions.  Indices are 1-based here: job_index j of the module is    *)
(* job_index j-1 of the C++ code, so "job_index >= get_job_count()" reads  *)
(* j > Len(m_jobs).  A pfc::string8 that the code inspects character by    *)
(* character (manifest text, item paths, server_url) is a sequence of      *)
(* one-character strings; a string the code only copies and compares       *)
(* (fingerprints, endpoint and playlist names, error texts) is a TLA+      *)
(* string.                                                                 *)
(***************************************************************************)
EXTENDS Integers, Sequences, FiniteSets, TLC

VARIABLES
    cfg_enabled,     \* persisted: cfg_enabled (config.cpp)
    cfg_sync_jobs,   \* persisted: cfg_sync_jobs, the serialised job list
    m_enabled,       \* sync_config::m_enabled
    m_jobs,          \* sync_config::m_jobs
    m_syncing,       \* sync_manager::m_syncing
    m_tick_count,    \* sync_manager::m_tick_count
    m_timer_id,      \* sync_manager::m_timer_id (0 = no timer)
    m_callbacks,     \* sync_manager::m_callbacks
    page,            \* the CPreferencesPage instance (m_enabled, m_jobs), if open
    playlists,       \* the host's playlist store: name -> items, or NoPlaylist
    attempts,        \* the request chains in flight, by slot
    pc,              \* "init" before sync_manager::start, "running", "crashed"
    last,            \* the continuation that ran in the last step and what it did
    edits,           \* how many more edits the user makes on the preferences page
    rc               \* input and output of a stand-alone update_playlist call

vars == <<cfg_enabled, cfg_sync_jobs, m_enabled, m_jobs, m_syncing, m_tick_count,
          m_timer_id, m_callbacks, page, playlists, attempts, pc, last, edits, rc>>

----------------------------------------------------------------------------
(* Bounds of the model *)

MaxJobs == 2
MaxAttempts == 2
MaxAttemptsRetry == 3
MaxTick == 10
MaxEdits == 2
MaxEditsFair == 1
MaxLocal == 2
MaxRemote == 2
MaxTokens == 5

(* Program constants *)

MinPollInterval == 10
DefaultPollInterval == 60

----------------------------------------------------------------------------
(* Characters and strings *)

LF == "LF"
CR == "CR"
SP == " "
TAB == "TAB"
HASH == "#"

RECURSIVE SeqToSet(_)
SeqToSet(s) == IF s = <<>> THEN {} ELSE {Head(s)} \cup SeqToSet(Tail(s))

ascii_tolower(c) ==
    CASE c = "A" -> "a"
      [] c = "B" -> "b"
      [] c = "C" -> "c"
      [] OTHER -> c

string_lower(s) == [i \in 1..Len(s) |-> ascii_tolower(s[i])]

\* std::set<pfc::string8, pfc_string8_compare>: two keys are the same element
\* when neither compares below the other under stricmp_ascii.
pfc_string8_equiv(a, b) == string_lower(a) = string_lower(b)

set_find(set, key) == \E k \in set : pfc_string8_equiv(k, key)

RECURSIVE skip_trailing_char(_, _)
skip_trailing_char(s, c) ==
    IF Len(s) > 0 /\ s[Len(s)] = c
    THEN skip_trailing_char(SubSeq(s, 1, Len(s) - 1), c)
    ELSE s

has_prefix(s, p) == Len(s) >= Len(p) /\ SubSeq(s, 1, Len(p)) = p

StreamPrefix == <<"/", "s", "t", "r", "e", "a", "m", "/">>

----------------------------------------------------------------------------
(* sync_manager::parse_m3u8 *)

IsLineBreak(c) == c = LF \/ c = CR

RECURSIVE ScanLineEnd(_, _)
ScanLineEnd(content, p) ==
    IF p <= Len(content) /\ ~IsLineBreak(content[p])
    THEN ScanLineEnd(content, p + 1)
    ELSE p

RECURSIVE SkipLineBreaks(_, _)
SkipLineBreaks(content, p) ==
    IF p <= Len(content) /\ IsLineBreak(content[p])
    THEN SkipLineBreaks(content, p + 1)
    ELSE p

RECURSIVE parse_from(_, _)
parse_from(content, ptr) ==
    IF ptr > Len(content) THEN <<>>
    ELSE LET line_end == ScanLineEnd(content, ptr)
             raw == SubSeq(content, ptr, line_end - 1)
             line == skip_trailing_char(skip_trailing_char(raw, SP), TAB)
             rest == parse_from(content, SkipLineBreaks(content, line_end))
         IN  IF line_end > ptr /\ content[ptr] # HASH /\ Len(line) > 0
             THEN <<line>> \o rest
             ELSE rest

parse_m3u8(content) == parse_from(content, 1)

----------------------------------------------------------------------------
(* The host's playlist store and sync_manager::update_playlist *)

\* A name the store has no playlist for, and a playlist with its items
NoPlaylist == [exists |-> FALSE, items |-> <<>>]
Playlist(items) == [exists |-> TRUE, items |-> items]

find_playlist(store, name) == store[name].exists

create_playlist(store, name) == [store EXCEPT ![name] = Playlist(<<>>)]

find_or_create_playlist(store, name) ==
    IF find_playlist(store, name) THEN store ELSE create_playlist(store, name)

\* A variant of file_paths that leaves "/stream/..." entries relative
file_paths_unmapped(job, playlist_content) == parse_m3u8(playlist_content)

\* "Apply path mappings": a "/stream/..." entry gets the job's server_url in front.
file_paths(job, playlist_content) ==
    LET parsed == parse_m3u8(playlist_content)
    IN  [i \in 1..Len(parsed) |->
            IF has_prefix(parsed[i], StreamPrefix)
            THEN job.server_url \o parsed[i]
            ELSE parsed[i]]

\* A variant of remove_mask that compares paths byte for byte
remove_mask_case_sensitive(items, downloaded_paths) ==
    {i \in 1..Len(items) : items[i] \notin downloaded_paths}

\* remove_mask: the positions of the local items whose path is not downloaded.
remove_mask(items, downloaded_paths) ==
    {i \in 1..Len(items) : ~set_find(downloaded_paths, items[i])}

\* A variant of new_paths_storage that collects the new paths last to first
RECURSIVE new_paths_storage_reversed(_, _)
new_paths_storage_reversed(paths, existing_paths) ==
    IF paths = <<>> THEN <<>>
    ELSE IF set_find(existing_paths, Head(paths))
         THEN new_paths_storage_reversed(Tail(paths), existing_paths)
         ELSE new_paths_storage_reversed(Tail(paths), existing_paths) \o <<Head(paths)>>

\* new_paths_storage: the downloaded paths, in manifest order, not in the local set.
RECURSIVE new_paths_storage(_, _)
new_paths_storage(paths, existing_paths) ==
    IF paths = <<>> THEN <<>>
    ELSE IF set_find(existing_paths, Head(paths))
         THEN new_paths_storage(Tail(paths), existing_paths)
         ELSE <<Head(paths)>> \o new_paths_storage(Tail(paths), existing_paths)

\* playlist_manager::playlist_remove_items: drop the masked positions.
RECURSIVE remove_from(_, _, _)
remove_from(items, mask, i) ==
    IF i > Len(items) THEN <<>>
    ELSE IF i \in mask
         THEN remove_from(items, mask, i + 1)
         ELSE <<items[i]>> \o remove_from(items, mask, i + 1)

playlist_remove_items(items, mask) == remove_from(items, mask, 1)

\* playlist_manager::playlist_add_locations: append in the order given.
playlist_add_locations(items, locations) == items \o locations

\* A variant of update_playlist that finds or creates the playlist first
update_playlist_creates_first(job, playlist_content, store) ==
    LET paths == file_paths(job, playlist_content)
        store1 == find_or_create_playlist(store, job.target_playlist)
    IN  IF Len(paths) = 0 THEN store1
        ELSE LET items == store1[job.target_playlist].items
                 mask == remove_mask(items, SeqToSet(paths))
                 new_paths == new_paths_storage(paths, SeqToSet(items))
             IN  [store1 EXCEPT ![job.target_playlist] =
                     Playlist(playlist_remove_items(items, mask) \o new_paths)]

update_playlist(job, playlist_content, store) ==
    LET paths == file_paths(job, playlist_content)
    IN  IF Len(paths) = 0 THEN store
        ELSE LET downloaded_paths == SeqToSet(paths)
                 store1 == find_or_create_playlist(store, job.target_playlist)
                 items == store1[job.target_playlist].items
                 existing_paths == SeqToSet(items)
                 mask == remove_mask(items, downloaded_paths)
                 new_paths == new_paths_storage(paths, existing_paths)
                 removed == IF Cardinality(mask) > 0
                            THEN playlist_remove_items(items, mask)
                            ELSE items
                 added == IF Len(new_paths) > 0
                          THEN playlist_add_locations(removed, new_paths)
                          ELSE removed
             IN  [store1 EXCEPT ![job.target_playlist] = Playlist(added)]

\* A call update_playlist makes on the playlist_manager for the target playlist
RemoveCall(mask, count) ==
    [api |-> "playlist_remove_items", mask |-> mask, count |-> count,
     locations |-> <<>>]

AddCall(locations) ==
    [api |-> "playlist_add_locations", mask |-> {}, count |-> 0,
     locations |-> locations]

\* A variant of update_playlist_calls that adds before it removes
update_playlist_calls_add_first(job, playlist_content, store) ==
    LET paths == file_paths(job, playlist_content)
    IN  IF Len(paths) = 0 THEN <<>>
        ELSE LET store1 == find_or_create_playlist(store, job.target_playlist)
                 items == store1[job.target_playlist].items
                 mask == remove_mask(items, SeqToSet(paths))
                 new_paths == new_paths_storage(paths, SeqToSet(items))
             IN  (IF Len(new_paths) > 0 THEN <<AddCall(new_paths)>> ELSE <<>>)
                 \o (IF Cardinality(mask) > 0
                     THEN <<RemoveCall(mask, Len(items))>> ELSE <<>>)

\* The calls update_playlist makes that change the target playlist, in the
\* order in which it makes them; the mask is a bit_array_bittable of the item
\* count read before the loop that fills it.
update_playlist_calls(job, playlist_content, store) ==
    LET paths == file_paths(job, playlist_content)
    IN  IF Len(paths) = 0 THEN <<>>
        ELSE LET downloaded_paths == SeqToSet(paths)
                 store1 == find_or_create_playlist(store, job.target_playlist)
                 items == store1[job.target_playlist].items
                 existing_paths == SeqToSet(items)
                 mask == remove_mask(items, downloaded_paths)
                 new_paths == new_paths_storage(paths, existing_paths)
             IN  (IF Cardinality(mask) > 0
                  THEN <<RemoveCall(mask, Len(items))>> ELSE <<>>)
                 \o (IF Len(new_paths) > 0 THEN <<AddCall(new_paths)>> ELSE <<>>)

\* What the playlist_manager makes of the calls
RECURSIVE run_calls(_, _)
run_calls(items, calls) ==
    IF calls = <<>> THEN items
    ELSE run_calls(
             IF Head(calls).api = "playlist_remove_items"
             THEN playlist_remove_items(items, Head(calls).mask)
             ELSE playlist_add_locations(items, Head(calls).locations),
             Tail(calls))

----------------------------------------------------------------------------
(* SyncJob and sync_config *)

ServerUrl == <<"S">>

SyncJob(endpoint, target, enabled, interval) ==
    [server_url |-> ServerUrl, playlist_endpoint |-> endpoint,
     target_playlist |-> target, enabled |-> enabled,
     poll_interval_seconds |-> interval, last_hash |-> "", last_error |-> ""]

\* SyncJob::write: last_error is not serialised.
SerialisedFields ==
    {"server_url", "playlist_endpoint", "target_playlist", "enabled",
     "poll_interval_seconds", "last_hash"}

write(job) == [f \in SerialisedFields |-> job[f]]

\* SyncJob::read into a default-constructed SyncJob.
read(blob) ==
    [server_url |-> blob.server_url, playlist_endpoint |-> blob.playlist_endpoint,
     target_playlist |-> blob.target_playlist, enabled |-> blob.enabled,
     poll_interval_seconds |-> blob.poll_interval_seconds,
     last_hash |-> blob.last_hash, last_error |-> ""]

\* The configuration as one value: c.m_enabled, c.m_jobs and the persisted copies.
Config ==
    [m_enabled |-> m_enabled, m_jobs |-> m_jobs,
     cfg_enabled |-> cfg_enabled, cfg_sync_jobs |-> cfg_sync_jobs]

save(c) ==
    [c EXCEPT !.cfg_enabled = c.m_enabled,
              !.cfg_sync_jobs = [i \in 1..Len(c.m_jobs) |-> write(c.m_jobs[i])]]

load(c) ==
    [c EXCEPT !.m_enabled = c.cfg_enabled,
              !.m_jobs = [i \in 1..Len(c.cfg_sync_jobs) |-> read(c.cfg_sync_jobs[i])]]

add_job(c, job) == save([c EXCEPT !.m_jobs = Append(c.m_jobs, job)])

remove_job(c, index) ==
    IF index <= Len(c.m_jobs)
    THEN save([c EXCEPT !.m_jobs =
                   SubSeq(c.m_jobs, 1, index - 1) \o
                   SubSeq(c.m_jobs, index + 1, Len(c.m_jobs))])
    ELSE c

set_enabled(c, enabled) == [c EXCEPT !.m_enabled = enabled]

----------------------------------------------------------------------------
(* sync_manager: the in-flight flags and the attempts *)

\* A slot of attempts: not started yet, or the attempt has run its terminal step
NoAttempt == [phase |-> "none"]
DoneAttempt == [phase |-> "done"]
NoStep == [op |-> "none"]

Slots == 1..MaxAttemptsRetry

\* The attempt has started and its terminal step has not run
Busy(a) == attempts[a].phase \in {"post", "hash", "playlist"}

\* sync_manager::is_syncing on a given flag vector
is_syncing_in(syncing, job_index) ==
    job_index <= Len(syncing) /\ syncing[job_index]

is_syncing(job_index) == is_syncing_in(m_syncing, job_index)

\* std::vector<bool>::resize(n, false)
resize(syncing, n) ==
    [i \in 1..n |-> IF i <= Len(syncing) THEN syncing[i] ELSE FALSE]

\* A variant of reload_config that only ever grows the vector
reload_config_grow_only(syncing, job_count) ==
    IF Len(syncing) < job_count THEN resize(syncing, job_count) ELSE syncing

reload_config(syncing, job_count) ==
    IF Len(syncing) # job_count THEN resize(syncing, job_count) ELSE syncing

Url(job, kind) ==
    [server_url |-> job.server_url, kind |-> kind, endpoint |-> job.playlist_endpoint]

on_sync_progress(job_index, status, percent, syncing) ==
    [type |-> "progress", job_index |-> job_index, status |-> status,
     percent |-> percent, is_syncing |-> is_syncing_in(syncing, job_index)]

on_sync_complete(job_index, status, syncing) ==
    [type |-> "complete", job_index |-> job_index, status |-> status,
     is_syncing |-> is_syncing_in(syncing, job_index)]

\* The fan-out loops "for (i < m_callbacks.get_count()) m_callbacks[i]->on_...":
\* who is called with what, in the order of the calls
RECURSIVE fan_out(_, _)
fan_out(callbacks, events) ==
    IF events = <<>> THEN <<>>
    ELSE [i \in 1..Len(callbacks) |-> [cb |-> callbacks[i], event |-> Head(events)]]
         \o fan_out(callbacks, Tail(events))

\* With rc = [state |-> "history"] an attempt keeps on record which observers
\* were registered when it started
Observers == IF rc = [state |-> "history"] THEN m_callbacks ELSE <<>>

\* The part of the engine a trigger changes: e.m_syncing and e.attempts
\* (e.full is set when one more attempt would exceed the model's MaxAttempts).
\* Attempts are numbered in the order in which they start.
Engine == [m_syncing |-> m_syncing, attempts |-> attempts, full |-> FALSE]

FreeSlot(att) == CHOOSE a \in Slots : att[a].phase = "none" /\
                     \A b \in Slots : att[b].phase = "none" => a <= b

check_and_sync_job(e, jobs, job_index) ==
    IF job_index > Len(jobs) THEN e
    ELSE IF \A a \in Slots : e.attempts[a].phase # "none" THEN [e EXCEPT !.full = TRUE]
    ELSE LET job == jobs[job_index]
             syncing == [e.m_syncing EXCEPT ![job_index] = TRUE]
             a == FreeSlot(e.attempts)
         IN  [e EXCEPT !.m_syncing = syncing,
                       !.attempts[a] =
                           [idx |-> job_index, phase |-> "post",
                            url |-> Url(job, "/sync/"), new_hash |-> "",
                            observers |-> Observers,
                            events |-> <<on_sync_progress(job_index,
                                            "Syncing server...", 10, syncing)>>]]

RECURSIVE sync_all_from(_, _, _)
sync_all_from(e, jobs, i) ==
    IF i > Len(jobs) THEN e
    ELSE sync_all_from(
             IF jobs[i].enabled /\ ~e.m_syncing[i]
             THEN check_and_sync_job(e, jobs, i) ELSE e,
             jobs, i + 1)

\* A variant of sync_all that starts nothing
sync_all_none(e, jobs) == e

sync_all(e, jobs) == sync_all_from(e, jobs, 1)

\* A variant of on_timer_from without the interval test
RECURSIVE on_timer_from_every_tick(_, _, _, _)
on_timer_from_every_tick(e, jobs, tick, i) ==
    IF i > Len(jobs) THEN e
    ELSE on_timer_from_every_tick(
             IF jobs[i].enabled /\ ~e.m_syncing[i]
             THEN check_and_sync_job(e, jobs, i) ELSE e,
             jobs, tick, i + 1)

\* A variant of on_timer_from that does not look at the job's enabled flag
RECURSIVE on_timer_from_any_job(_, _, _, _)
on_timer_from_any_job(e, jobs, tick, i) ==
    IF i > Len(jobs) THEN e
    ELSE on_timer_from_any_job(
             IF ~e.m_syncing[i] /\ tick % jobs[i].poll_interval_seconds = 0
             THEN check_and_sync_job(e, jobs, i) ELSE e,
             jobs, tick, i + 1)

RECURSIVE on_timer_from(_, _, _, _)
on_timer_from(e, jobs, tick, i) ==
    IF i > Len(jobs) THEN e
    ELSE on_timer_from(
             IF jobs[i].enabled /\ ~e.m_syncing[i]
                /\ tick % jobs[i].poll_interval_seconds = 0
             THEN check_and_sync_job(e, jobs, i) ELSE e,
             jobs, tick, i + 1)

\* A variant of sync_now without the in-flight guard
sync_now_unguarded(e, jobs, job_index) ==
    IF job_index <= Len(jobs) THEN check_and_sync_job(e, jobs, job_index) ELSE e

sync_now(e, jobs, job_index) ==
    LET e1 == IF Len(e.m_syncing) < Len(jobs)
              THEN [e EXCEPT !.m_syncing = reload_config(e.m_syncing, Len(jobs))]
              ELSE e
    IN  IF job_index <= Len(jobs) /\ job_index <= Len(e1.m_syncing)
           /\ ~e1.m_syncing[job_index]
        THEN check_and_sync_job(e1, jobs, job_index)
        ELSE e1

----------------------------------------------------------------------------
(* What the transport may answer *)

Hashes == {"h1"}
TransportError == "Request failed"

CommentOnlyManifest == <<HASH, "c", LF>>
ManifestA == <<"a", LF>>
Manifests == {CommentOnlyManifest, ManifestA}

PlaylistNames == {"P1", "P2"}

----------------------------------------------------------------------------
(* Initial state: the singletons as constructed, before initquit::on_init *)

JobA == SyncJob("e1", "P1", TRUE, MinPollInterval)
JobB == SyncJob("e2", "P2", TRUE, MinPollInterval)

\* What an earlier run may have persisted: nothing, or one job whose fingerprint
\* is stored although its playlist does not exist in the host.
InitialStores == {<<>>, <<write([JobA EXCEPT !.last_hash = "h1"])>>}

\* One stored job, or two
FairStores == {<<write(JobA)>>, <<write(JobA), write(JobB)>>}

ClosedPage == [open |-> FALSE, m_enabled |-> TRUE, m_jobs |-> <<>>]
NoRc == [state |-> "none"]

\* With rc = KeepHistory an attempt that has ended stays on record
KeepHistory == [state |-> "history"]

\* stores: what may be persisted; budget: the page edits; slots: how many
\* attempts may start; harness: NoRc or KeepHistory
InitWith(stores, budget, slots, harness) ==
    /\ cfg_enabled \in BOOLEAN
    /\ cfg_sync_jobs \in stores
    /\ LET c == load([m_enabled |-> TRUE, m_jobs |-> <<>>,
                       cfg_enabled |-> cfg_enabled,
                       cfg_sync_jobs |-> cfg_sync_jobs])
       IN  m_enabled = c.m_enabled /\ m_jobs = c.m_jobs
    /\ m_syncing = <<>>
    /\ m_tick_count = 0
    /\ m_timer_id = 0
    /\ m_callbacks = <<>>
    /\ page = ClosedPage
    /\ playlists = [n \in PlaylistNames |-> NoPlaylist]
    /\ attempts = [a \in Slots |-> IF a <= slots THEN NoAttempt ELSE DoneAttempt]
    /\ pc = "init"
    /\ last = NoStep
    /\ edits = budget
    /\ rc = harness

Init == InitWith(InitialStores, MaxEdits, MaxAttempts, NoRc)

configVars == <<cfg_enabled, cfg_sync_jobs, m_enabled, m_jobs>>

----------------------------------------------------------------------------
(* sync_manager::start, timer_proc *)

\* What a trigger (start, on_timer, sync_now) did: the attempts it started.
\* job_index is the argument of sync_now, 0 for the passes over all jobs.
\* The events of the attempts a trigger started, in the order of their start
RECURSIVE StartedEvents(_, _)
StartedEvents(e, a) ==
    IF a \notin Slots THEN <<>>
    ELSE (IF attempts[a].phase = "none" /\ e.attempts[a].phase # "none"
          THEN e.attempts[a].events ELSE <<>>) \o StartedEvents(e, a + 1)

Trigger(op, job_index, e) ==
    [op |-> op, slot |-> 0, idx |-> job_index, success |-> TRUE,
     response |-> "", outcome |-> "continue", events |-> <<>>, entries |-> 0,
     started |-> {a \in Slots : attempts[a].phase = "none"
                                  /\ e.attempts[a].phase # "none"},
     delivered |-> fan_out(m_callbacks, StartedEvents(e, 1))]

start ==
    /\ pc = "init"
    /\ LET syncing == resize(m_syncing, Len(m_jobs))
           e0 == [Engine EXCEPT !.m_syncing = syncing]
           go == m_enabled /\ Len(m_jobs) > 0
           e == IF go THEN sync_all(e0, m_jobs) ELSE e0
       IN  /\ ~e.full
           /\ m_timer_id' = IF go THEN 1 ELSE m_timer_id
           /\ m_syncing' = e.m_syncing
           /\ attempts' = e.attempts
           /\ last' = Trigger("start", 0, e)
    /\ pc' = "running"
    /\ UNCHANGED <<configVars, m_tick_count, m_callbacks, page, playlists, edits, rc>>

on_timer ==
    /\ pc = "running"
    /\ m_timer_id # 0
    /\ m_tick_count < MaxTick
    /\ m_tick_count' = m_tick_count + 1
    /\ LET e == IF ~m_enabled THEN Engine
                ELSE on_timer_from(Engine, m_jobs, m_tick_count + 1, 1)
       IN  /\ ~e.full
           /\ m_syncing' = e.m_syncing
           /\ attempts' = e.attempts
           /\ last' = Trigger("on_timer", 0, e)
    /\ UNCHANGED <<configVars, m_timer_id, m_callbacks, page, playlists, pc, edits, rc>>

----------------------------------------------------------------------------
(* The continuations of an attempt *)

Step(op, a, success, response, outcome, events, entries) ==
    [op |-> op, slot |-> a, idx |-> attempts[a].idx, success |-> success,
     response |-> response, outcome |-> outcome, events |-> events,
     entries |-> entries,
     delivered |-> fan_out(m_callbacks,
                       SubSeq(events, Len(attempts[a].events) + 1, Len(events)))]

\* The record of an attempt whose terminal continuation runs: with KeepHistory,
\* its job index, whether it failed, and the job's last_hash and whether the
\* target playlist was missing at that moment
Ended(a, failed) ==
    IF rc = KeepHistory
    THEN LET job == m_jobs[attempts[a].idx]
         IN  [phase |-> "done", idx |-> attempts[a].idx, failed |-> failed,
              last_hash |-> job.last_hash,
              missing |-> ~find_playlist(playlists, job.target_playlist),
              observers |-> attempts[a].observers]
    ELSE DoneAttempt

\* "if (job_index >= config.get_job_count()) { m_syncing[job_index] = false; return; }"
\* m_syncing has as many elements as there are jobs, so the write is out of
\* bounds: a std::vector<bool> build without checks writes a bit nobody reads,
\* a checked build aborts the process.
stale_job(op, a, success, response) ==
    LET j == attempts[a].idx
        oob == j > Len(m_syncing)
    IN  /\ m_syncing' = IF oob THEN m_syncing ELSE [m_syncing EXCEPT ![j] = FALSE]
        /\ \E abort \in (IF oob THEN BOOLEAN ELSE {FALSE}) :
               pc' = IF abort THEN "crashed" ELSE pc
        /\ attempts' = [attempts EXCEPT ![a] = DoneAttempt]
        /\ last' = Step(op, a, success, response, "stale", attempts[a].events, 0)
        /\ UNCHANGED <<configVars, m_tick_count, m_timer_id, m_callbacks, page,
                       playlists, edits, rc>>

\* A variant of post_continuation that gives up when the POST failed
post_continuation_fatal(a, success) ==
    LET att == attempts[a]
        j == att.idx
    IN  IF j > Len(m_jobs) THEN stale_job("post", a, success, "")
        ELSE IF success
        THEN LET events == Append(att.events,
                               on_sync_progress(j, "Checking...", 30, m_syncing))
             IN  /\ attempts' = [attempts EXCEPT ![a] =
                        [att EXCEPT !.phase = "hash",
                                    !.url = Url(m_jobs[j], "/hash/"),
                                    !.events = events]]
                 /\ last' = Step("post", a, success, "", "continue", events, 0)
                 /\ UNCHANGED <<configVars, m_syncing, m_tick_count, m_timer_id,
                                m_callbacks, page, playlists, pc, edits, rc>>
        ELSE LET syncing == [m_syncing EXCEPT ![j] = FALSE]
                 events == Append(att.events, on_sync_complete(j, "Error", syncing))
             IN  /\ m_jobs' = [m_jobs EXCEPT ![j].last_error = TransportError]
                 /\ m_syncing' = syncing
                 /\ attempts' = [attempts EXCEPT ![a] = DoneAttempt]
                 /\ last' = Step("post", a, success, "", "check_error", events, 0)
                 /\ UNCHANGED <<cfg_enabled, cfg_sync_jobs, m_enabled, m_tick_count,
                                m_timer_id, m_callbacks, page, playlists, pc, edits, rc>>

\* The post_async continuation of check_and_sync_job
post_continuation(a, success) ==
    LET att == attempts[a]
        j == att.idx
    IN  IF j > Len(m_jobs) THEN stale_job("post", a, success, "")
        ELSE LET events == Append(att.events,
                               on_sync_progress(j, "Checking...", 30, m_syncing))
             IN  /\ attempts' = [attempts EXCEPT ![a] =
                        [att EXCEPT !.phase = "hash",
                                    !.url = Url(m_jobs[j], "/hash/"),
                                    !.events = events]]
                 /\ last' = Step("post", a, success, "", "continue", events, 0)
                 /\ UNCHANGED <<configVars, m_syncing, m_tick_count, m_timer_id,
                                m_callbacks, page, playlists, pc, edits, rc>>

\* A variant of check_error that also forgets the stored fingerprint
check_error_resets_hash(a, error) ==
    LET att == attempts[a]
        j == att.idx
        syncing == [m_syncing EXCEPT ![j] = FALSE]
        events == Append(att.events, on_sync_complete(j, "Error", syncing))
    IN  /\ m_jobs' = [m_jobs EXCEPT ![j].last_error = error, ![j].last_hash = ""]
        /\ m_syncing' = syncing
        /\ attempts' = [attempts EXCEPT ![a] = DoneAttempt]
        /\ last' = Step("hash", a, FALSE, "", "check_error", events, 0)
        /\ UNCHANGED <<cfg_enabled, cfg_sync_jobs, m_enabled, m_tick_count,
                       m_timer_id, m_callbacks, page, playlists, pc, edits, rc>>

\* check_hash_and_download, "if (!success)"
check_error(a, error) ==
    LET att == attempts[a]
        j == att.idx
        syncing == [m_syncing EXCEPT ![j] = FALSE]
        events == Append(att.events, on_sync_complete(j, "Error", syncing))
    IN  /\ m_jobs' = [m_jobs EXCEPT ![j].last_error = error]
        /\ m_syncing' = syncing
        /\ attempts' = [attempts EXCEPT ![a] = Ended(a, TRUE)]
        /\ last' = Step("hash", a, FALSE, "", "check_error", events, 0)
        /\ UNCHANGED <<cfg_enabled, cfg_sync_jobs, m_enabled, m_tick_count,
                       m_timer_id, m_callbacks, page, playlists, pc, edits, rc>>

\* A variant of no_change that notifies before it clears the flag
no_change_notify_first(a, response) ==
    LET att == attempts[a]
        j == att.idx
        events == Append(att.events, on_sync_complete(j, "OK (No Change)", m_syncing))
    IN  /\ m_jobs' = [m_jobs EXCEPT ![j].last_error = ""]
        /\ m_syncing' = [m_syncing EXCEPT ![j] = FALSE]
        /\ attempts' = [attempts EXCEPT ![a] = DoneAttempt]
        /\ last' = Step("hash", a, TRUE, response, "no_change", events, 0)
        /\ UNCHANGED <<cfg_enabled, cfg_sync_jobs, m_enabled, m_tick_count,
                       m_timer_id, m_callbacks, page, playlists, pc, edits, rc>>

\* check_hash_and_download, "if (response == job.last_hash && !force_update)"
no_change(a, response) ==
    LET att == attempts[a]
        j == att.idx
        syncing == [m_syncing EXCEPT ![j] = FALSE]
        events == Append(att.events, on_sync_complete(j, "OK (No Change)", syncing))
    IN  /\ m_jobs' = [m_jobs EXCEPT ![j].last_error = ""]
        /\ m_syncing' = syncing
        /\ attempts' = [attempts EXCEPT ![a] = Ended(a, FALSE)]
        /\ last' = Step("hash", a, TRUE, response, "no_change", events, 0)
        /\ UNCHANGED <<cfg_enabled, cfg_sync_jobs, m_enabled, m_tick_count,
                       m_timer_id, m_callbacks, page, playlists, pc, edits, rc>>

\* check_hash_and_download, "Hash changed - download playlist"
download_playlist(a, response) ==
    LET att == attempts[a]
        j == att.idx
        events == Append(att.events,
                      on_sync_progress(j, "Downloading...", 50, m_syncing))
    IN  /\ attempts' = [attempts EXCEPT ![a] =
               [att EXCEPT !.phase = "playlist",
                           !.url = Url(m_jobs[j], "/playlist/"),
                           !.new_hash = response,
                           !.events = events]]
        /\ last' = Step("hash", a, TRUE, response, "continue", events, 0)
        /\ UNCHANGED <<configVars, m_syncing, m_tick_count, m_timer_id,
                       m_callbacks, page, playlists, pc, edits, rc>>

\* A variant of force_update that never looks for the playlist
force_update_never(job) == FALSE

force_update(job) == ~find_playlist(playlists, job.target_playlist)

\* A variant of check_hash_and_download without the fast path
check_hash_and_download_always(a, success, response, error) ==
    LET j == attempts[a].idx
    IN  IF j > Len(m_jobs) THEN stale_job("hash", a, success, response)
        ELSE IF ~success THEN check_error(a, error)
        ELSE download_playlist(a, response)

\* A variant of check_hash_and_download that drops the attempt of a disabled job
check_hash_and_download_if_enabled(a, success, response, error) ==
    LET j == attempts[a].idx
    IN  IF j > Len(m_jobs) THEN stale_job("hash", a, success, response)
        ELSE IF ~m_jobs[j].enabled
             THEN /\ m_syncing' = [m_syncing EXCEPT ![j] = FALSE]
                  /\ attempts' = [attempts EXCEPT ![a] = DoneAttempt]
                  /\ last' = Step("hash", a, success, response, "cancelled",
                                  attempts[a].events, 0)
                  /\ UNCHANGED <<configVars, m_tick_count, m_timer_id, m_callbacks,
                                 page, playlists, pc, edits, rc>>
        ELSE IF ~success THEN check_error(a, error)
        ELSE IF response = m_jobs[j].last_hash /\ ~force_update(m_jobs[j])
             THEN no_change(a, response)
        ELSE download_playlist(a, response)

check_hash_and_download(a, success, response, error) ==
    LET j == attempts[a].idx
    IN  IF j > Len(m_jobs) THEN stale_job("hash", a, success, response)
        ELSE IF ~success THEN check_error(a, error)
        ELSE IF response = m_jobs[j].last_hash /\ ~force_update(m_jobs[j])
             THEN no_change(a, response)
        ELSE download_playlist(a, response)

\* A variant of download_error that returns without notifying
download_error_silent(a, error) ==
    LET att == attempts[a]
        j == att.idx
    IN  /\ m_jobs' = [m_jobs EXCEPT ![j].last_error = error]
        /\ m_syncing' = [m_syncing EXCEPT ![j] = FALSE]
        /\ attempts' = [attempts EXCEPT ![a] = DoneAttempt]
        /\ last' = Step("playlist", a, FALSE, "", "download_error", att.events, 0)
        /\ UNCHANGED <<cfg_enabled, cfg_sync_jobs, m_enabled, m_tick_count,
                       m_timer_id, m_callbacks, page, playlists, pc, edits, rc>>

\* A variant of download_error that stores the fetched fingerprint all the same
download_error_advances_hash(a, error) ==
    LET att == attempts[a]
        j == att.idx
        syncing == [m_syncing EXCEPT ![j] = FALSE]
        events == Append(att.events, on_sync_complete(j, "Error", syncing))
    IN  /\ m_jobs' = [m_jobs EXCEPT ![j].last_error = error,
                                    ![j].last_hash = att.new_hash]
        /\ m_syncing' = syncing
        /\ attempts' = [attempts EXCEPT ![a] = Ended(a, TRUE)]
        /\ last' = Step("playlist", a, FALSE, "", "download_error", events, 0)
        /\ UNCHANGED <<cfg_enabled, cfg_sync_jobs, m_enabled, m_tick_count,
                       m_timer_id, m_callbacks, page, playlists, pc, edits, rc>>

\* The download continuation, "if (!success)"
download_error(a, error) ==
    LET att == attempts[a]
        j == att.idx
        syncing == [m_syncing EXCEPT ![j] = FALSE]
        events == Append(att.events, on_sync_complete(j, "Error", syncing))
    IN  /\ m_jobs' = [m_jobs EXCEPT ![j].last_error = error]
        /\ m_syncing' = syncing
        /\ attempts' = [attempts EXCEPT ![a] = Ended(a, TRUE)]
        /\ last' = Step("playlist", a, FALSE, "", "download_error", events, 0)
        /\ UNCHANGED <<cfg_enabled, cfg_sync_jobs, m_enabled, m_tick_count,
                       m_timer_id, m_callbacks, page, playlists, pc, edits, rc>>

\* A variant of download_done that leaves the flag set
download_done_keeps_flag(a, response) ==
    LET att == attempts[a]
        j == att.idx
        progress == Append(att.events,
                        on_sync_progress(j, "Updating Playlist...", 80, m_syncing))
        jobs == [m_jobs EXCEPT ![j].last_hash = att.new_hash,
                               ![j].last_error = ""]
        c == save([Config EXCEPT !.m_jobs = jobs])
        events == Append(progress, on_sync_complete(j, "OK", m_syncing))
    IN  /\ playlists' = update_playlist(m_jobs[j], response, playlists)
        /\ m_jobs' = c.m_jobs
        /\ cfg_sync_jobs' = c.cfg_sync_jobs
        /\ cfg_enabled' = c.cfg_enabled
        /\ attempts' = [attempts EXCEPT ![a] = DoneAttempt]
        /\ last' = Step("playlist", a, TRUE, response, "ok", events,
                        Len(file_paths(m_jobs[j], response)))
        /\ UNCHANGED <<m_enabled, m_syncing, m_tick_count, m_timer_id,
                       m_callbacks, page, pc, edits, rc>>

\* A variant of download_done that notifies before it stores and saves the hash
download_done_notify_before_save(a, response) ==
    LET att == attempts[a]
        j == att.idx
        progress == Append(att.events,
                        on_sync_progress(j, "Updating Playlist...", 80, m_syncing))
        syncing == [m_syncing EXCEPT ![j] = FALSE]
        events == Append(progress, on_sync_complete(j, "OK", syncing))
        jobs == [m_jobs EXCEPT ![j].last_hash = att.new_hash,
                               ![j].last_error = ""]
        c == save([Config EXCEPT !.m_jobs = jobs])
    IN  /\ playlists' = update_playlist(m_jobs[j], response, playlists)
        /\ m_jobs' = c.m_jobs
        /\ cfg_sync_jobs' = c.cfg_sync_jobs
        /\ cfg_enabled' = c.cfg_enabled
        /\ m_syncing' = syncing
        /\ attempts' = [attempts EXCEPT ![a] = DoneAttempt]
        /\ last' = Step("playlist", a, TRUE, response, "ok", events,
                        Len(file_paths(m_jobs[j], response)))
                   @@ [persisted |-> cfg_sync_jobs]
        /\ UNCHANGED <<m_enabled, m_tick_count, m_timer_id, m_callbacks, page,
                       pc, edits, rc>>

\* The download continuation, success: update_playlist, store the hash, save.
\* last.persisted is the persisted job list as the on_sync_complete loop finds it.
download_done(a, response) ==
    LET att == attempts[a]
        j == att.idx
        progress == Append(att.events,
                        on_sync_progress(j, "Updating Playlist...", 80, m_syncing))
        store == update_playlist(m_jobs[j], response, playlists)
        jobs == [m_jobs EXCEPT ![j].last_hash = att.new_hash,
                               ![j].last_error = ""]
        c == save([Config EXCEPT !.m_jobs = jobs])
        syncing == [m_syncing EXCEPT ![j] = FALSE]
        events == Append(progress, on_sync_complete(j, "OK", syncing))
    IN  /\ playlists' = store
        /\ m_jobs' = c.m_jobs
        /\ cfg_sync_jobs' = c.cfg_sync_jobs
        /\ cfg_enabled' = c.cfg_enabled
        /\ m_syncing' = syncing
        /\ attempts' = [attempts EXCEPT ![a] = Ended(a, FALSE)]
        /\ last' = Step("playlist", a, TRUE, response, "ok", events,
                        Len(file_paths(m_jobs[j], response)))
                   @@ [persisted |-> c.cfg_sync_jobs]
        /\ UNCHANGED <<m_enabled, m_tick_count, m_timer_id, m_callbacks, page,
                       pc, edits, rc>>

download_continuation(a, success, response, error) ==
    LET j == attempts[a].idx
    IN  IF j > Len(m_jobs) THEN stale_job("playlist", a, success, response)
        ELSE IF ~success THEN download_error(a, error)
        ELSE download_done(a, response)

\* fb2k::inMainThread delivers the result of a finished request
post_done ==
    /\ pc = "running"
    /\ \E a \in Slots : /\ Busy(a) /\ attempts[a].phase = "post"
                        /\ \E success \in BOOLEAN : post_continuation(a, success)

hash_done ==
    /\ pc = "running"
    /\ \E a \in Slots :
        /\ Busy(a) /\ attempts[a].phase = "hash"
        /\ \/ \E h \in Hashes : check_hash_and_download(a, TRUE, h, "")
           \/ check_hash_and_download(a, FALSE, "", TransportError)

playlist_done ==
    /\ pc = "running"
    /\ \E a \in Slots :
        /\ Busy(a) /\ attempts[a].phase = "playlist"
        /\ \/ \E m \in Manifests : download_continuation(a, TRUE, m, "")
           \/ download_continuation(a, FALSE, "", TransportError)

----------------------------------------------------------------------------
(* The transport's worker threads, followed when rc.state = "threads" *)

\* rc.results[a]: what the worker thread of attempt a's current request has
\* handed to fb2k::inMainThread, if it has
NoResult == [state |-> "pending"]

Threads == [state |-> "threads", results |-> [a \in Slots |-> NoResult]]

\* The worker of attempt a's current request has its result
Answered(a) ==
    /\ rc.results[a].state = "answered"
    /\ rc.results[a].phase = attempts[a].phase

\* What get_sync / post_sync may return for a request of the given kind
Answers(phase) ==
    IF phase = "post"
    THEN {[success |-> s, response |-> ""] : s \in BOOLEAN}
    ELSE IF phase = "hash"
    THEN {[success |-> TRUE, response |-> h] : h \in Hashes}
         \cup {[success |-> FALSE, response |-> ""]}
    ELSE {[success |-> TRUE, response |-> m] : m \in Manifests}
         \cup {[success |-> FALSE, response |-> ""]}

\* A variant of http_worker that invokes the callback on the worker thread
http_worker_calls_back(a) ==
    /\ attempts[a].phase = "post"
    /\ \E success \in BOOLEAN : post_continuation(a, success)

\* The body of the std::thread of get_async / post_async: the request is made
\* with url_copy, and the result is captured for the main thread
http_worker(a) ==
    /\ \E answer \in Answers(attempts[a].phase) :
         /\ rc' = [rc EXCEPT !.results[a] =
                      [state |-> "answered", phase |-> attempts[a].phase,
                       url |-> attempts[a].url, success |-> answer.success,
                       response |-> answer.response]]
         /\ last' = [op |-> "worker", slot |-> a, idx |-> attempts[a].idx,
                     success |-> answer.success, response |-> answer.response,
                     outcome |-> "continue", events |-> <<>>, entries |-> 0]
    /\ UNCHANGED <<configVars, m_syncing, m_tick_count, m_timer_id, m_callbacks,
                   page, playlists, attempts, pc, edits>>

worker_done ==
    /\ pc = "running"
    /\ rc.state = "threads"
    /\ \E a \in Slots : Busy(a) /\ ~Answered(a) /\ http_worker(a)

\* The continuation step was given the result its worker thread captured
Delivered ==
    LET result == rc.results[last'.slot]
    IN  /\ Answered(last'.slot)
        /\ result.phase = last'.op
        /\ result.success = last'.success
        /\ result.response = last'.response

----------------------------------------------------------------------------
(* CEditJobDialog and CPreferencesPage *)

IntervalInputs == {3, MinPollInterval}

\* What the user may leave in the edit dialog when pressing OK
DialogInputs ==
    [template : {<<"e1", "P1">>, <<"e2", "P2">>},
     interval : IntervalInputs, enabled : BOOLEAN]

\* A variant of OnOK that stores the interval as entered
OnOK_unclamped(job, input) ==
    [job EXCEPT !.server_url = ServerUrl,
                !.playlist_endpoint = input.template[1],
                !.target_playlist = input.template[2],
                !.poll_interval_seconds = input.interval,
                !.enabled = input.enabled]

\* CEditJobDialog::OnOK on the job the dialog was opened for
OnOK(job, input) ==
    [job EXCEPT !.server_url = ServerUrl,
                !.playlist_endpoint = input.template[1],
                !.target_playlist = input.template[2],
                !.poll_interval_seconds =
                    IF input.interval < MinPollInterval
                    THEN MinPollInterval ELSE input.interval,
                !.enabled = input.enabled]

\* A variant of remove_item that leaves the list as it is
remove_item_none(list, item) == list

remove_item(list, item) == SelectSeq(list, LAMBDA x : x # item)

RECURSIVE remove_all_jobs(_)
remove_all_jobs(c) ==
    IF Len(c.m_jobs) > 0 THEN remove_all_jobs(remove_job(c, 1)) ELSE c

RECURSIVE add_jobs_from(_, _, _)
add_jobs_from(c, jobs, i) ==
    IF i > Len(jobs) THEN c ELSE add_jobs_from(add_job(c, jobs[i]), jobs, i + 1)

\* CPreferencesPage::apply, the configuration part
apply_config(c, pg) ==
    add_jobs_from(remove_all_jobs(set_enabled(c, pg.m_enabled)), pg.m_jobs, 1)

pageRest == <<m_tick_count, m_timer_id, playlists, pc, rc>>

CanEdit == pc = "running" /\ page.open /\ edits > 0

\* What the edit dialog did on OK: the fields entered, for the job at sel
Edited(sel, input) ==
    [op |-> "OnOK", slot |-> 0, idx |-> sel, success |-> TRUE, response |-> "",
     outcome |-> "continue", events |-> <<>>, entries |-> 0, input |-> input]

OnInitDialog ==
    /\ pc = "running"
    /\ ~page.open
    /\ page' = [open |-> TRUE, m_enabled |-> m_enabled, m_jobs |-> m_jobs]
    /\ m_callbacks' = Append(m_callbacks, "page")
    /\ last' = NoStep
    /\ UNCHANGED edits
    /\ UNCHANGED <<configVars, m_syncing, attempts, pageRest>>

OnDestroy ==
    /\ pc = "running"
    /\ page.open
    /\ page' = ClosedPage
    /\ m_callbacks' = remove_item(m_callbacks, "page")
    /\ last' = NoStep
    /\ UNCHANGED edits
    /\ UNCHANGED <<configVars, m_syncing, attempts, pageRest>>

OnEnabledChanged ==
    /\ CanEdit
    /\ page' = [page EXCEPT !.m_enabled = ~page.m_enabled]
    /\ edits' = edits - 1
    /\ last' = NoStep
    /\ UNCHANGED <<configVars, m_syncing, m_callbacks, attempts, pageRest>>

OnAdd ==
    /\ CanEdit
    /\ Len(page.m_jobs) < MaxJobs
    /\ \E input \in DialogInputs :
         LET new_job == SyncJob("music", "Synced Music", TRUE, DefaultPollInterval)
         IN  /\ page' = [page EXCEPT !.m_jobs = Append(@, OnOK(new_job, input))]
             /\ last' = Edited(Len(page.m_jobs) + 1, input)
    /\ edits' = edits - 1
    /\ UNCHANGED <<configVars, m_syncing, m_callbacks, attempts, pageRest>>

OnEdit ==
    /\ CanEdit
    /\ \E sel \in 1..Len(page.m_jobs) : \E input \in DialogInputs :
         /\ page' = [page EXCEPT !.m_jobs[sel] = OnOK(@, input)]
         /\ last' = Edited(sel, input)
    /\ edits' = edits - 1
    /\ UNCHANGED <<configVars, m_syncing, m_callbacks, attempts, pageRest>>

OnRemove ==
    /\ CanEdit
    /\ \E sel \in 1..Len(page.m_jobs) :
         page' = [page EXCEPT !.m_jobs =
                      SubSeq(@, 1, sel - 1) \o SubSeq(@, sel + 1, Len(@))]
    /\ edits' = edits - 1
    /\ last' = NoStep
    /\ UNCHANGED <<configVars, m_syncing, m_callbacks, attempts, pageRest>>

reset ==
    /\ CanEdit
    /\ page' = [page EXCEPT !.m_enabled = TRUE, !.m_jobs = <<>>]
    /\ edits' = edits - 1
    /\ last' = NoStep
    /\ UNCHANGED <<configVars, m_syncing, m_callbacks, attempts, pageRest>>

apply ==
    /\ pc = "running"
    /\ page.open
    /\ LET c == apply_config(Config, page)
       IN  /\ m_enabled' = c.m_enabled
           /\ m_jobs' = c.m_jobs
           /\ cfg_enabled' = c.cfg_enabled
           /\ cfg_sync_jobs' = c.cfg_sync_jobs
           /\ m_syncing' = reload_config(m_syncing, Len(c.m_jobs))
    /\ last' = NoStep
    /\ UNCHANGED edits
    /\ UNCHANGED <<m_callbacks, page, attempts, pageRest>>

\* The Sync Now button is enabled for a selected job that is enabled
\* (UpdateButtons); OnSyncNow applies the page and calls sync_now(sel).
OnSyncNow ==
    /\ pc = "running"
    /\ page.open
    /\ \E sel \in 1..Len(page.m_jobs) :
         /\ page.m_jobs[sel].enabled
         /\ LET c == apply_config(Config, page)
                e0 == [Engine EXCEPT !.m_syncing =
                           reload_config(m_syncing, Len(c.m_jobs))]
                e == sync_now(e0, c.m_jobs, sel)
            IN  /\ ~e.full
                /\ m_enabled' = c.m_enabled
                /\ m_jobs' = c.m_jobs
                /\ cfg_enabled' = c.cfg_enabled
                /\ cfg_sync_jobs' = c.cfg_sync_jobs
                /\ m_syncing' = e.m_syncing
                /\ attempts' = e.attempts
                /\ last' = Trigger("sync_now", sel, e)
    /\ UNCHANGED edits
    /\ UNCHANGED <<m_callbacks, page, pageRest>>

----------------------------------------------------------------------------
Next ==
    \/ start
    \/ on_timer
    \/ post_done
    \/ hash_done
    \/ playlist_done
    \/ OnInitDialog
    \/ OnDestroy
    \/ OnEnabledChanged
    \/ OnAdd
    \/ OnEdit
    \/ OnRemove
    \/ reset
    \/ apply
    \/ OnSyncNow

Spec == Init /\ [][Next]_vars

\* The transport delivers the result of every request it was given
Delivery ==
    /\ WF_vars(post_done)
    /\ WF_vars(hash_done)
    /\ WF_vars(playlist_done)

\* The same program with one or two stored jobs and a smaller budget of page edits
InitFair == InitWith(FairStores, MaxEditsFair, MaxAttempts, NoRc)

SpecFair == InitFair /\ [][Next]_vars /\ Delivery

\* The engine left alone: two stored jobs with the same target playlist, one of
\* them with a stored fingerprint, no preferences page
JobA2 == SyncJob("e2", "P1", TRUE, MinPollInterval)

RetryStores == {<<write([JobA EXCEPT !.last_hash = "h1"]), write(JobA2)>>}

InitRetry == InitWith(RetryStores, 0, MaxAttemptsRetry, KeepHistory)

RetryNext ==
    \/ start
    \/ on_timer
    \/ post_done
    \/ hash_done
    \/ playlist_done

SpecRetry == InitRetry /\ [][RetryNext]_vars


\* The same program with the worker threads of the transport: a continuation
\* runs with what its worker handed over
InitThreads == InitWith({<<write(JobA)>>}, MaxEditsFair, MaxAttempts, Threads)

ThreadsNext ==
    \/ start
    \/ on_timer
    \/ worker_done
    \/ post_done /\ Delivered
    \/ hash_done /\ Delivered
    \/ playlist_done /\ Delivered
    \/ OnInitDialog
    \/ OnDestroy
    \/ OnEnabledChanged
    \/ OnAdd
    \/ OnEdit
    \/ OnRemove
    \/ reset
    \/ apply
    \/ OnSyncNow

SpecThreads == InitThreads /\ [][ThreadsNext]_vars

\* The engine and the one observer the component has, the preferences page,
\* which registers when it is opened and deregisters when it is destroyed
InitObserve == InitWith({<<write(JobA)>>}, 0, MaxAttemptsRetry, KeepHistory)

ObserveNext ==
    \/ start
    \/ on_timer
    \/ post_done
    \/ hash_done
    \/ playlist_done
    \/ OnInitDialog
    \/ OnDestroy

SpecObserve == InitObserve /\ [][ObserveNext]_vars

----------------------------------------------------------------------------
(* The observer list on its own: clients of add_callback / remove_callback  *)
(* and one fan-out loop at a time. An observer may call remove_callback for *)
(* itself from inside its callback.                                         *)

MaxObservers == 3

CallbackNames == {"cb1", "cb2", "cb3"}

NoFanOut == [state |-> "idle", i |-> 0, registered |-> {}, removed |-> {},
             received |-> [cb \in CallbackNames |-> 0]]

FanOutInit ==
    /\ cfg_enabled = TRUE
    /\ cfg_sync_jobs = <<write(JobA)>>
    /\ m_enabled = TRUE
    /\ m_jobs = <<JobA>>
    /\ m_syncing = <<FALSE>>
    /\ m_tick_count = 0
    /\ m_timer_id = 0
    /\ m_callbacks = <<>>
    /\ page = ClosedPage
    /\ playlists = [n \in PlaylistNames |-> NoPlaylist]
    /\ attempts = [a \in Slots |-> NoAttempt]
    /\ pc = "notify"
    /\ last = NoStep
    /\ edits = 0
    /\ rc = NoFanOut

fanOutRest == <<configVars, m_syncing, m_tick_count, m_timer_id, page, playlists,
                attempts, pc, last, edits>>

\* sync_manager::add_callback, called between two fan-outs
add_callback(cb) ==
    /\ pc = "notify"
    /\ rc.state # "loop"
    /\ Len(m_callbacks) < MaxObservers
    /\ \A k \in 1..Len(m_callbacks) : m_callbacks[k] # cb
    /\ m_callbacks' = Append(m_callbacks, cb)
    /\ UNCHANGED <<rc, fanOutRest>>

\* sync_manager::remove_callback, called between two fan-outs
remove_callback(cb) ==
    /\ pc = "notify"
    /\ rc.state # "loop"
    /\ \E k \in 1..Len(m_callbacks) : m_callbacks[k] = cb
    /\ m_callbacks' = remove_item(m_callbacks, cb)
    /\ UNCHANGED <<rc, fanOutRest>>

\* The loop "for (size_t i = 0; i < m_callbacks.get_count(); ++i)" is entered
notify_begin ==
    /\ pc = "notify"
    /\ rc.state # "loop"
    /\ rc' = [NoFanOut EXCEPT !.state = "loop",
                              !.registered = {m_callbacks[k] : k \in 1..Len(m_callbacks)}]
    /\ UNCHANGED <<m_callbacks, fanOutRest>>

\* One iteration: m_callbacks[i] is called, and may deregister itself before
\* it returns; then ++i
notify_call ==
    /\ pc = "notify"
    /\ rc.state = "loop"
    /\ rc.i < Len(m_callbacks)
    /\ LET cb == m_callbacks[rc.i + 1]
       IN  \E leaves \in BOOLEAN :
             /\ m_callbacks' = IF leaves THEN remove_item(m_callbacks, cb)
                               ELSE m_callbacks
             /\ rc' = [rc EXCEPT !.i = @ + 1,
                                 !.received[cb] = @ + 1,
                                 !.removed = IF leaves THEN @ \cup {cb} ELSE @]
    /\ UNCHANGED fanOutRest

\* The loop condition fails
notify_end ==
    /\ pc = "notify"
    /\ rc.state = "loop"
    /\ rc.i >= Len(m_callbacks)
    /\ rc' = [rc EXCEPT !.state = "notified"]
    /\ UNCHANGED <<m_callbacks, fanOutRest>>

FanOutNext ==
    \/ \E cb \in CallbackNames : add_callback(cb)
    \/ \E cb \in CallbackNames : remove_callback(cb)
    \/ notify_begin
    \/ notify_call
    \/ notify_end

SpecFanOut == FanOutInit /\ [][FanOutNext]_vars

\* C36 (as stated): when a fan-out has ended, every observer that was
\* registered when it began and did not deregister during it has received the
\* event exactly once, also when another observer deregistered itself from
\* inside its callback.
C36_EachObserverOnce ==
    rc.state = "notified" =>
        \A cb \in rc.registered \ rc.removed : rc.received[cb] = 1

----------------------------------------------------------------------------
(* The artwork extractor: g_artwork_cache, g_artwork_lru and g_failed_urls, *)
(* and extractor instances whose query runs on the caller's thread. Each    *)
(* access to the cache is one step under g_artwork_cache_mutex; the fetch   *)
(* happens between two such steps, outside the lock.                        *)

ARTWORK_CACHE_MAX_SIZE == 100
FAILED_URLS_MAX_SIZE == 1000

MaxInstances == 2

Instances == 1..MaxInstances

ArtworkUrls == {"u1", "u2"}

\* nsync_artwork_extractor_instance after construction for a stream of url
NewInstance(url) ==
    [m_artwork_url |-> url, m_cache_checked |-> FALSE, m_cached_art |-> FALSE,
     at |-> "idle"]

\* g_artwork_cache (its keys), g_artwork_lru (front first), g_failed_urls
NoArtwork ==
    [state |-> "artwork", g_artwork_cache |-> {}, g_artwork_lru |-> <<>>,
     g_failed_urls |-> {}]

\* std::list::remove: every element equal to the value
lru_remove(lru, url) == SelectSeq(lru, LAMBDA x : x # url)

\* get_cached_artwork: on a hit the key moves to the front of the LRU list
get_cached_artwork(g, url) ==
    IF url \in g.g_artwork_cache
    THEN [g EXCEPT !.g_artwork_lru = <<url>> \o lru_remove(@, url)]
    ELSE g

\* The eviction loop of cache_artwork
RECURSIVE evict(_)
evict(g) ==
    IF Cardinality(g.g_artwork_cache) >= ARTWORK_CACHE_MAX_SIZE /\ g.g_artwork_lru # <<>>
    THEN LET oldest == g.g_artwork_lru[Len(g.g_artwork_lru)]
         IN  evict([g EXCEPT !.g_artwork_lru = SubSeq(@, 1, Len(@) - 1),
                             !.g_artwork_cache = @ \ {oldest}])
    ELSE g

\* cache_artwork: evict, g_artwork_cache[url] = art, push_front(url)
cache_artwork(g, url) ==
    LET e == evict(g)
    IN  [e EXCEPT !.g_artwork_cache = @ \cup {url},
                  !.g_artwork_lru = <<url>> \o @]

is_url_failed(g, url) == url \in g.g_failed_urls

mark_url_failed(g, url) ==
    [g EXCEPT !.g_failed_urls =
        (IF Cardinality(@) > FAILED_URLS_MAX_SIZE THEN {} ELSE @) \cup {url}]

ArtworkInit ==
    /\ cfg_enabled = TRUE
    /\ cfg_sync_jobs = <<write(JobA)>>
    /\ m_enabled = TRUE
    /\ m_jobs = <<JobA>>
    /\ m_syncing = <<FALSE>>
    /\ m_tick_count = 0
    /\ m_timer_id = 0
    /\ m_callbacks = <<>>
    /\ page = ClosedPage
    /\ playlists = [n \in PlaylistNames |-> NoPlaylist]
    /\ attempts = [a \in Slots |-> NoAttempt]
    /\ pc = "artwork"
    /\ last = NoStep
    /\ edits = 0
    /\ \E urls \in [Instances -> ArtworkUrls] :
         rc = NoArtwork @@ [instances |-> [n \in Instances |-> NewInstance(urls[n])]]

artworkRest == <<configVars, m_syncing, m_tick_count, m_timer_id, m_callbacks,
                 page, playlists, attempts, pc, last, edits>>

\* The host opens an extractor instance for another track
open_instance(n) ==
    /\ pc = "artwork"
    /\ rc.instances[n].at = "idle"
    /\ \E url \in ArtworkUrls :
         rc' = [rc EXCEPT !.instances[n] = NewInstance(url)]
    /\ UNCHANGED artworkRest

\* query up to get_cached_artwork: the instance's own answer if it has asked
\* before, else the global cache; a miss goes on to the failed-URL test
query(n) ==
    /\ pc = "artwork"
    /\ rc.instances[n].at = "idle"
    /\ LET inst == rc.instances[n]
           url == inst.m_artwork_url
           g == get_cached_artwork(rc, url)
       IN  IF inst.m_cache_checked THEN UNCHANGED rc
           ELSE rc' = [g EXCEPT !.instances[n] =
                          [inst EXCEPT !.m_cache_checked = TRUE,
                                       !.m_cached_art = url \in rc.g_artwork_cache,
                                       !.at = IF url \in rc.g_artwork_cache
                                              THEN "idle" ELSE "missed"]]
    /\ UNCHANGED artworkRest

\* query after a miss: is_url_failed, then get_binary_sync is called
query_failed_test(n) ==
    /\ pc = "artwork"
    /\ rc.instances[n].at = "missed"
    /\ rc' = [rc EXCEPT !.instances[n].at =
                 IF is_url_failed(rc, rc.instances[n].m_artwork_url)
                 THEN "idle" ELSE "fetching"]
    /\ UNCHANGED artworkRest

\* query after get_binary_sync returned: mark_url_failed, or cache_artwork
query_fetched(n) ==
    /\ pc = "artwork"
    /\ rc.instances[n].at = "fetching"
    /\ LET url == rc.instances[n].m_artwork_url
       IN  \E image \in BOOLEAN :
             rc' = IF image
                   THEN [cache_artwork(rc, url) EXCEPT
                            !.instances[n].m_cached_art = TRUE,
                            !.instances[n].at = "idle"]
                   ELSE [mark_url_failed(rc, url) EXCEPT !.instances[n].at = "idle"]
    /\ UNCHANGED artworkRest

ArtworkNext ==
    \/ \E n \in Instances : open_instance(n)
    \/ \E n \in Instances : query(n)
    \/ \E n \in Instances : query_failed_test(n)
    \/ \E n \in Instances : query_fetched(n)

SpecArtwork == ArtworkInit /\ [][ArtworkNext]_vars

\* C37 (as stated): g_artwork_lru holds exactly the keys of g_artwork_cache,
\* each once, and the cache holds at most ARTWORK_CACHE_MAX_SIZE entries, also
\* when two instances for one URL both miss, both fetch and both store.
C37_LruMatchesCache ==
    /\ {rc.g_artwork_lru[k] : k \in 1..Len(rc.g_artwork_lru)} = rc.g_artwork_cache
    /\ Len(rc.g_artwork_lru) = Cardinality(rc.g_artwork_cache)
    /\ Cardinality(rc.g_artwork_cache) <= ARTWORK_CACHE_MAX_SIZE

----------------------------------------------------------------------------
(* update_playlist on its own: a local playlist L and a manifest listing R *)

Paths == {<<"a">>, <<"A">>, <<"b">>, <<"c">>}

SeqsUpTo(S, n) == UNION {[1..k -> S] : k \in 0..n}

\* The manifest text that lists the given paths, one per line
RECURSIVE ManifestOf(_)
ManifestOf(paths) ==
    IF paths = <<>> THEN <<>> ELSE Head(paths) \o <<LF>> \o ManifestOf(Tail(paths))

ReconcileInit ==
    /\ cfg_enabled = TRUE
    /\ cfg_sync_jobs = <<write(JobA)>>
    /\ m_enabled = TRUE
    /\ m_jobs = <<JobA>>
    /\ m_syncing = <<FALSE>>
    /\ m_tick_count = 0
    /\ m_timer_id = 0
    /\ m_callbacks = <<>>
    /\ page = ClosedPage
    /\ \E local \in {NoPlaylist} \cup {Playlist(l) : l \in SeqsUpTo(Paths, MaxLocal)} :
         playlists = [n \in PlaylistNames |->
                         IF n = JobA.target_playlist THEN local ELSE NoPlaylist]
    /\ attempts = [a \in Slots |-> NoAttempt]
    /\ pc = "reconcile"
    /\ last = NoStep
    /\ edits = 0
    /\ \E remote \in SeqsUpTo(Paths, MaxRemote) :
         rc = [state |-> "input", local |-> playlists[JobA.target_playlist],
               remote |-> remote, calls |-> <<>>]

reconcile ==
    /\ pc = "reconcile"
    /\ rc.state = "input"
    /\ playlists' = update_playlist(m_jobs[1], ManifestOf(rc.remote), playlists)
    /\ rc' = [rc EXCEPT !.state = "done",
                        !.calls = update_playlist_calls(m_jobs[1],
                                      ManifestOf(rc.remote), playlists)]
    /\ UNCHANGED <<configVars, m_syncing, m_tick_count, m_timer_id, m_callbacks,
                   page, attempts, pc, last, edits>>

ReconcileNext == reconcile

SpecReconcile == ReconcileInit /\ [][ReconcileNext]_vars

----------------------------------------------------------------------------
(* Properties of the sync engine, checked under Spec *)

\* The steps that are continuations of an attempt, and those that end it
Continuation(step) == step.op \in {"post", "hash", "playlist"}

Terminal(step) == step.op # "none" /\ step.outcome # "continue"

IsComplete(event) == event.type = "complete"

CompleteCount(events) ==
    Cardinality({i \in 1..Len(events) : IsComplete(events[i])})

LastHashes(jobs) == [i \in 1..Len(jobs) |-> jobs[i].last_hash]

\* C1 (as stated): under every interleaving of timer ticks, manual triggers
\* and configuration changes, no two attempts are outstanding for one job
\* index at the same time.
C1_AtMostOneAttemptPerJob ==
    \A a, b \in Slots :
        Busy(a) /\ Busy(b) /\ attempts[a].idx = attempts[b].idx => a = b

\* C2: whenever an on_sync_complete event is emitted, with any of the labels
\* "OK", "OK (No Change)" and "Error" (check or download), is_syncing of the
\* job is already false; no attempt still in flight has emitted one.
C2_FlagClearedBeforeComplete ==
    /\ \A a \in Slots : Busy(a) => CompleteCount(attempts[a].events) = 0
    /\ last.op # "none" =>
          \A i \in 1..Len(last.events) :
              IsComplete(last.events[i]) =>
                  /\ last.events[i].is_syncing = FALSE
                  /\ last.events[i].job_index = last.idx

C2_Witness ==
    /\ last.op = "playlist"
    /\ last.outcome = "ok"
    /\ CompleteCount(last.events) = 1
    /\ last.events[Len(last.events)].status = "OK"

\* C4 (as stated): every attempt that ends, on every path including the one
\* where its job no longer exists, has emitted exactly one on_sync_complete,
\* as its last event.
C4_ExactlyOneCompleteOnEveryPath ==
    Terminal(last) =>
        /\ CompleteCount(last.events) = 1
        /\ IsComplete(last.events[Len(last.events)])

\* C4 (amended): an attempt whose job index is still below the job count when
\* its terminal continuation runs has emitted exactly one on_sync_complete, as
\* its last event; an attempt that finds its index out of range ends without
\* any on_sync_complete; an attempt still in flight has emitted none.
C4_ExactlyOneCompleteUnlessStale ==
    /\ \A a \in Slots : Busy(a) => CompleteCount(attempts[a].events) = 0
    /\ last.op # "none" /\ last.outcome = "continue" =>
          CompleteCount(last.events) = 0
    /\ Terminal(last) /\ last.outcome # "stale" =>
          /\ CompleteCount(last.events) = 1
          /\ IsComplete(last.events[Len(last.events)])
    /\ Terminal(last) /\ last.outcome = "stale" =>
          CompleteCount(last.events) = 0

C4_Witness ==
    /\ Terminal(last)
    /\ last.outcome = "stale"
    /\ Len(last.events) >= 1

C6_NoChangeFastPath ==
    [][ (/\ last'.op = "hash"
         /\ last'.success
         /\ last'.outcome # "stale"
         /\ last'.response = m_jobs[last'.idx].last_hash
         /\ find_playlist(playlists, m_jobs[last'.idx].target_playlist))
        => /\ last'.outcome = "no_change"
           /\ attempts'[last'.slot].phase = "done"
           /\ playlists' = playlists
           /\ m_jobs'[last'.idx].last_error = ""
           /\ LastHashes(m_jobs') = LastHashes(m_jobs)
           /\ last'.events[Len(last'.events)] =
                  on_sync_complete(last'.idx, "OK (No Change)", m_syncing')
      ]_vars

C6_Witness ==
    /\ last.op = "hash"
    /\ last.outcome = "no_change"
    /\ last.response = m_jobs[last.idx].last_hash
    /\ find_playlist(playlists, m_jobs[last.idx].target_playlist)
    /\ attempts[last.slot].phase = "done"

\* C7: the fast path is taken only if the target playlist exists: with the
\* fetched fingerprint equal to last_hash and the playlist missing the attempt
\* requests the manifest, and a successful download of a manifest with at
\* least one entry leaves the target playlist existing.
C7_FirstRunGuarantee ==
    [][ LET j == last'.idx
            equal_but_missing ==
                /\ last'.op = "hash"
                /\ last'.success
                /\ last'.outcome # "stale"
                /\ last'.response = m_jobs[j].last_hash
                /\ ~find_playlist(playlists, m_jobs[j].target_playlist)
            downloaded_entries ==
                /\ last'.op = "playlist"
                /\ last'.outcome = "ok"
                /\ Len(parse_m3u8(last'.response)) > 0
        IN  /\ (last'.op = "hash" /\ last'.outcome = "no_change")
                  => find_playlist(playlists, m_jobs[j].target_playlist)
            /\ equal_but_missing
                  => /\ attempts'[last'.slot].phase = "playlist"
                     /\ attempts'[last'.slot].url = Url(m_jobs[j], "/playlist/")
            /\ downloaded_entries
                  => find_playlist(playlists', m_jobs[j].target_playlist)
      ]_vars

C7_Witness ==
    /\ last.op = "hash"
    /\ last.outcome = "continue"
    /\ last.response = m_jobs[last.idx].last_hash
    /\ ~find_playlist(playlists, m_jobs[last.idx].target_playlist)
    /\ attempts[last.slot].phase = "playlist"

\* C9: a successfully downloaded manifest with zero valid entries changes no
\* playlist: nothing is removed, nothing is added, no playlist is created.
C9_EmptyManifestLeavesPlaylists ==
    [][ (/\ last'.op = "playlist"
         /\ last'.outcome = "ok"
         /\ Len(parse_m3u8(last'.response)) = 0)
        => playlists' = playlists
      ]_vars

C9_Witness ==
    /\ last.op = "playlist"
    /\ last.outcome = "ok"
    /\ last.response = CommentOnlyManifest
    /\ Len(parse_m3u8(last.response)) = 0
    /\ ~find_playlist(playlists, m_jobs[last.idx].target_playlist)

\* C10 (as stated): a successfully downloaded manifest with zero valid entries
\* leaves the job's last_hash, in memory and as persisted, unchanged.
C10_EmptyManifestKeepsHash ==
    [][ (/\ last'.op = "playlist"
         /\ last'.outcome = "ok"
         /\ Len(parse_m3u8(last'.response)) = 0)
        => /\ m_jobs'[last'.idx].last_hash = m_jobs[last'.idx].last_hash
           /\ cfg_sync_jobs' = cfg_sync_jobs
      ]_vars

FlagNeverLeaksWhileAlive ==
    /\ [](\A j \in 1..Len(m_syncing) :
             m_syncing[j] => \E a \in Slots : Busy(a) /\ attempts[a].idx = j)
    /\ [](Terminal(last) =>
             ~is_syncing(last.idx) /\ attempts[last.slot].phase = "done")
    /\ \A a \in Slots :
           Busy(a) ~> (attempts[a].phase = "done" \/ pc = "crashed")

\* C11 (as stated): when the downloaded manifest has zero valid entries, the
\* attempt's terminal on_sync_complete carries a warning label that is neither
\* "OK" nor "Error".
C11_EmptyManifestWarningLabel ==
    (/\ last.op = "playlist"
     /\ last.outcome = "ok"
     /\ Len(parse_m3u8(last.response)) = 0)
    => last.events[Len(last.events)].status \notin {"OK", "Error"}

\* C13: every job in the config, in the persisted job list and on the page
\* has poll_interval_seconds >= 10, and an interval below 10 entered in the
\* edit dialog is stored as 10.
C13_IntervalClamped ==
    /\ \A i \in 1..Len(m_jobs) : m_jobs[i].poll_interval_seconds >= 10
    /\ \A i \in 1..Len(cfg_sync_jobs) : cfg_sync_jobs[i].poll_interval_seconds >= 10
    /\ \A i \in 1..Len(page.m_jobs) : page.m_jobs[i].poll_interval_seconds >= 10
    /\ (last.op = "OnOK" /\ last.input.interval < 10)
           => page.m_jobs[last.idx].poll_interval_seconds = 10

C13_Witness ==
    /\ last.op = "OnOK"
    /\ last.input.interval = 3
    /\ page.m_jobs[last.idx].poll_interval_seconds = 10
    /\ \E i \in 1..Len(cfg_sync_jobs) :
           /\ cfg_sync_jobs[i].playlist_endpoint = "e2"
           /\ cfg_sync_jobs[i].poll_interval_seconds = 10
           /\ m_jobs[i].poll_interval_seconds = 10
\* The attempts a step has started
Started == {a \in Slots : attempts[a].phase = "none" /\ attempts'[a].phase # "none"}

\* C14: on_timer starts an attempt for a job only at a tick where the
\* incremented counter is a multiple of the job's poll_interval_seconds, the
\* job is enabled and its flag is false, and then one attempt only; for every
\* other job the tick starts nothing and leaves the flag alone.
C14_TimerStartsOnlyWhenDue ==
    [][ last'.op = "on_timer" =>
          LET Due(j) == /\ m_jobs[j].enabled
                        /\ ~is_syncing(j)
                        /\ m_tick_count' % m_jobs[j].poll_interval_seconds = 0
          IN  /\ m_tick_count' = m_tick_count + 1
              /\ last'.started = Started
              /\ \A a \in Started :
                     /\ attempts'[a].phase = "post"
                     /\ attempts'[a].idx \in 1..Len(m_jobs)
                     /\ Due(attempts'[a].idx)
              /\ \A a, b \in Started : attempts'[a].idx = attempts'[b].idx => a = b
              /\ \A j \in 1..Len(m_jobs) :
                     ~Due(j) => /\ m_syncing'[j] = m_syncing[j]
                                /\ \A a \in Started : attempts'[a].idx # j
      ]_vars

C14_Witness ==
    /\ last.op = "on_timer"
    /\ last.started # {}
    /\ m_tick_count = 10
    /\ \A a \in last.started :
           m_tick_count % m_jobs[attempts[a].idx].poll_interval_seconds = 0

\* C15 (as stated): start begins an attempt at once for every enabled job of
\* the loaded job list, before the first tick.
C15_ColdStartEveryEnabledJob ==
    [][ last'.op = "start" =>
          /\ m_tick_count' = 0
          /\ \A j \in 1..Len(m_jobs) :
                 m_jobs[j].enabled =>
                     \E a \in Started : attempts'[a].idx = j /\ attempts'[a].phase = "post"
      ]_vars

\* C15 (amended): if the global enabled flag is set, start begins an attempt
\* at once, before the first tick, for every enabled job of the loaded job
\* list and for no other; if the flag is clear, start begins no attempt and
\* does not start the timer.
C15_ColdStartWhenEnabled ==
    [][ last'.op = "start" =>
          /\ m_tick_count' = 0
          /\ last'.started = Started
          /\ m_syncing = <<>>
          /\ IF m_enabled
             THEN /\ \A j \in 1..Len(m_jobs) :
                         m_jobs[j].enabled =>
                             \E a \in Started : /\ attempts'[a].idx = j
                                                /\ attempts'[a].phase = "post"
                  /\ \A a \in Started : m_jobs[attempts'[a].idx].enabled
                  /\ \A a, b \in Started : attempts'[a].idx = attempts'[b].idx => a = b
             ELSE /\ Started = {}
                  /\ m_timer_id' = 0
      ]_vars

C15_Witness ==
    /\ last.op = "start"
    /\ last.started # {}
    /\ m_tick_count = 0
    /\ m_enabled
    /\ \A j \in 1..Len(m_jobs) : m_jobs[j].enabled => is_syncing(j)

\* C16: in every state of the running program, sync_now(i) for a job whose
\* flag is false starts one attempt on i whatever the tick counter is, and
\* sync_now(i) for a job whose flag is set, or for an index that is not a job,
\* changes nothing and issues no request.
C16_SyncNowGuard ==
    pc = "running" =>
        \A i \in 1..(MaxJobs + 1) :
            LET e == sync_now(Engine, m_jobs, i)
                free == \E a \in Slots : attempts[a].phase = "none"
            IN  IF i <= Len(m_jobs) /\ ~is_syncing(i)
                THEN free =>
                       /\ e.m_syncing = [m_syncing EXCEPT ![i] = TRUE]
                       /\ \E a \in Slots :
                              /\ attempts[a].phase = "none"
                              /\ e.attempts[a].phase = "post"
                              /\ e.attempts[a].idx = i
                              /\ e.attempts[a].url = Url(m_jobs[i], "/sync/")
                              /\ \A b \in Slots \ {a} : e.attempts[b] = attempts[b]
                ELSE e = Engine

C16_Witness ==
    /\ last.op = "sync_now"
    /\ last.started # {}
    /\ \A a \in last.started : attempts[a].idx = last.idx /\ attempts[a].phase = "post"
    /\ m_tick_count % m_jobs[last.idx].poll_interval_seconds # 0
    /\ is_syncing(last.idx)
\* C17 (as stated): a continuation that finds its job index no longer below
\* the job count clears the flag of that index and does nothing else: no job
\* changes, nothing is persisted, no playlist changes, no request is issued,
\* no event is emitted, and the program goes on.
C17_StaleClearsOnlyFlag ==
    [][ (Continuation(last') /\ last'.outcome = "stale") =>
          /\ last'.idx > Len(m_jobs)
          /\ m_jobs' = m_jobs
          /\ m_enabled' = m_enabled
          /\ cfg_sync_jobs' = cfg_sync_jobs
          /\ cfg_enabled' = cfg_enabled
          /\ playlists' = playlists
          /\ attempts'[last'.slot].phase = "done"
          /\ \A a \in Slots \ {last'.slot} : attempts'[a] = attempts[a]
          /\ last'.events = attempts[last'.slot].events
          /\ ~is_syncing_in(m_syncing', last'.idx)
          /\ \A i \in 1..Len(m_syncing) :
                 i # last'.idx => m_syncing'[i] = m_syncing[i]
          /\ pc' = pc
      ]_vars

\* C18: whether the POST succeeded or failed, if the job still exists its
\* continuation emits the "Checking..." progress event, issues GET /hash/ and
\* changes no job: the attempt does not end and no error is recorded.
C18_PostNeverEndsAttempt ==
    [][ (last'.op = "post" /\ last'.idx <= Len(m_jobs)) =>
          /\ last'.outcome = "continue"
          /\ attempts'[last'.slot].phase = "hash"
          /\ attempts'[last'.slot].url = Url(m_jobs[last'.idx], "/hash/")
          /\ last'.events = Append(attempts[last'.slot].events,
                                   on_sync_progress(last'.idx, "Checking...", 30, m_syncing))
          /\ m_jobs' = m_jobs
          /\ cfg_sync_jobs' = cfg_sync_jobs
          /\ m_syncing' = m_syncing
          /\ playlists' = playlists
      ]_vars

C18_Witness ==
    /\ last.op = "post"
    /\ ~last.success
    /\ last.outcome = "continue"
    /\ attempts[last.slot].phase = "hash"
    /\ m_jobs[last.idx].last_error = ""
    /\ is_syncing(last.idx)

\* C20: the download step takes as new hash the fingerprint the check returned;
\* after an attempt that ends with "OK" the job's last_hash is that fingerprint
\* and its last_error is empty, and the persisted job list holds the same
\* last_hash already when on_sync_complete is emitted.
C20_OkStoresCheckedHash ==
    [][ /\ (last'.op = "hash" /\ last'.outcome = "continue")
              => attempts'[last'.slot].new_hash = last'.response
        /\ (last'.op = "playlist" /\ last'.outcome = "ok")
              => LET j == last'.idx
                     new_hash == attempts[last'.slot].new_hash
                 IN  /\ m_jobs'[j].last_hash = new_hash
                     /\ m_jobs'[j].last_error = ""
                     /\ cfg_sync_jobs'[j].last_hash = new_hash
                     /\ last'.persisted[j].last_hash = new_hash
                     /\ IsComplete(last'.events[Len(last'.events)])
                     /\ last'.events[Len(last'.events)].status = "OK"
      ]_vars

C20_Witness ==
    /\ last.op = "playlist"
    /\ last.outcome = "ok"
    /\ Len(parse_m3u8(last.response)) > 0
    /\ m_jobs[last.idx].last_hash = "h1"
    /\ last.persisted[last.idx].last_hash = "h1"
    /\ cfg_sync_jobs[last.idx].last_hash = "h1"

\* C22: a continuation whose job index is still below the job count takes the
\* same transition whether the job, or the whole component, is enabled or
\* disabled: the POST step goes on to the check, the check step ends with
\* "Error" or "OK (No Change)" or goes on to the download, the download step
\* ends with "Error" or "OK"; a step that ends the attempt emits its one
\* on_sync_complete. The enabled flags decide nothing.
C22_NoCancellation ==
    [][ LET s == last'
            live == Continuation(s) /\ s.idx <= Len(m_jobs)
            job == m_jobs[s.idx]
            exists == find_playlist(playlists, job.target_playlist)
            phase == attempts'[s.slot].phase
        IN  /\ (live /\ s.op = "post") =>
                  (s.outcome = "continue" /\ phase = "hash")
            /\ (live /\ s.op = "hash" /\ ~s.success) =>
                  (s.outcome = "check_error" /\ phase = "done")
            /\ (live /\ s.op = "hash" /\ s.success
                     /\ s.response = job.last_hash /\ exists) =>
                  (s.outcome = "no_change" /\ phase = "done")
            /\ (live /\ s.op = "hash" /\ s.success
                     /\ ~(s.response = job.last_hash /\ exists)) =>
                  (s.outcome = "continue" /\ phase = "playlist")
            /\ (live /\ s.op = "playlist" /\ ~s.success) =>
                  (s.outcome = "download_error" /\ phase = "done")
            /\ (live /\ s.op = "playlist" /\ s.success) =>
                  (s.outcome = "ok" /\ phase = "done")
            /\ (live /\ s.outcome # "continue") =>
                  (/\ CompleteCount(s.events) = 1
                   /\ IsComplete(s.events[Len(s.events)])
                   /\ ~is_syncing_in(m_syncing', s.idx))
      ]_vars

\* An attempt of a job that was disabled while in flight (no trigger starts an
\* attempt for a disabled job) has downloaded and ended with "OK"
C22_Witness ==
    /\ last.op = "playlist"
    /\ last.outcome = "ok"
    /\ last.idx <= Len(m_jobs)
    /\ ~m_jobs[last.idx].enabled
    /\ last.events[Len(last.events)].status = "OK"

\* C23 (as stated): every read or write of m_syncing uses an index below
\* m_syncing.size(): the passes of start, on_timer and sync_now over the jobs
\* find one flag per job, and a continuation that writes the flag of its job
\* index, also one that finds the index no longer below the job count, writes
\* within the vector.
C23_SyncingIndexInBounds ==
    [][ /\ (last'.op \in {"start", "on_timer", "sync_now"}) =>
               Len(m_syncing') >= Len(m_jobs')
        /\ (Continuation(last') /\ last'.outcome # "continue") =>
               last'.idx <= Len(m_syncing)
      ]_vars

\* The writes of the continuations whose job still exists, and the passes over
\* the jobs, are within the vector
SyncingIndexInBoundsUnlessStale ==
    [][ /\ (last'.op \in {"start", "on_timer", "sync_now"}) =>
               Len(m_syncing') >= Len(m_jobs')
        /\ (Continuation(last') /\ last'.outcome \notin {"continue", "stale"}) =>
               last'.idx <= Len(m_syncing)
        /\ (Continuation(last') /\ last'.outcome = "stale") =>
               last'.idx > Len(m_syncing)
      ]_vars

\* C24: once start() has run, m_syncing has as many elements as there are
\* jobs, in every state in which a timer tick, a sync_now or a continuation may
\* run next, whatever jobs the preferences page has added and removed.
C24_SyncingLengthIsJobCount ==
    pc # "init" => Len(m_syncing) = Len(m_jobs)

\* apply() has added jobs: at most one job is stored at startup
C24_Witness ==
    /\ pc = "running"
    /\ page.open
    /\ page.m_jobs = m_jobs
    /\ Len(m_jobs) = MaxJobs
    /\ Len(m_syncing) = MaxJobs

\* The attempts started with job index i whose terminal step has not run
Outstanding(i) == {a \in Slots : Busy(a) /\ attempts[a].idx = i}

\* C30 (as stated): in every state, for every job index i, m_syncing[i] is
\* true if and only if exactly one attempt started with index i is outstanding.
C30_FlagIffOneAttempt ==
    \A i \in 1..Len(m_syncing) :
        m_syncing[i] <=> Cardinality(Outstanding(i)) = 1

\* One direction holds: a set flag belongs to at least one outstanding attempt
FlagImpliesAttempt ==
    \A i \in 1..Len(m_syncing) : m_syncing[i] => Outstanding(i) # {}

\* What save() would persist for the jobs in memory
Serialised(jobs) == [i \in 1..Len(jobs) |-> write(jobs[i])]

\* C26 (as stated): whenever an operation that changes the configuration has
\* returned (a preferences apply with its set_enabled, remove_job and add_job
\* calls, the engine's last_hash update), the persisted job list and the
\* persisted enabled flag equal the ones in memory, also when the job list is
\* empty before and after an apply that changes only the enabled flag.
C26_PersistedEqualsMemory ==
    /\ cfg_sync_jobs = Serialised(m_jobs)
    /\ cfg_enabled = m_enabled

\* What holds instead: the persisted job list always equals the one in memory,
\* and so does the enabled flag while there is a job
JobsPersistedImmediately ==
    /\ cfg_sync_jobs = Serialised(m_jobs)
    /\ Len(m_jobs) > 0 => cfg_enabled = m_enabled

\* C31 (as stated): a continuation that writes last_hash or last_error, or
\* reconciles a playlist, does so for the job whose endpoint the answered
\* request was sent to, whatever the preferences page has applied while the
\* attempt was outstanding.
C31_JobIsolation ==
    [][ (Continuation(last') /\ last'.outcome \notin {"continue", "stale"}) =>
            attempts[last'.slot].url.endpoint =
                m_jobs[last'.idx].playlist_endpoint
      ]_vars

\* C32 (as stated, its safety part): once start() has run, whenever global
\* sync is enabled and an enabled job exists, also a job that a preferences
\* apply added later, the 1-second timer is running.
C32_TimerRunsWhenEnabled ==
    (/\ pc = "running"
     /\ m_enabled
     /\ \E i \in 1..Len(m_jobs) : m_jobs[i].enabled)
    => m_timer_id # 0

\* What holds instead: the timer runs if and only if start() found global sync
\* enabled and at least one job; nothing starts or stops it afterwards
TimerOnlyFromStart ==
    [][ /\ (last'.op = "start") =>
               (m_timer_id' # 0 <=> (m_enabled /\ Len(m_jobs) > 0))
        /\ (pc = "running") => m_timer_id' = m_timer_id
      ]_vars

\* The jobs of the attempts a trigger step started are all enabled
StartedJobsEnabled ==
    \A a \in last'.started : m_jobs'[attempts'[a].idx].enabled

\* C33 (as stated): no trigger, be it the start-up pass, on_timer or sync_now,
\* starts an attempt while the global enabled flag is false, nor for a job
\* whose own enabled flag is false.
C33_NoAttemptWhileDisabled ==
    [][ (last'.op \in {"start", "on_timer", "sync_now"} /\ last'.started # {}) =>
            (m_enabled' /\ StartedJobsEnabled)
      ]_vars

\* C33 (amended): the start-up pass and on_timer start no attempt while the
\* global enabled flag is false and none for a job whose own flag is false.
\* sync_now tests neither flag: the preferences page offers Sync Now only for
\* a job that is enabled on the page, and the attempt it starts is for that
\* job, whether the global flag is true or false.
C33_OnlySyncNowIgnoresGlobalFlag ==
    [][ /\ (last'.op \in {"start", "on_timer"} /\ last'.started # {}) =>
               (m_enabled' /\ StartedJobsEnabled)
        /\ (last'.op = "sync_now" /\ last'.started # {}) =>
               /\ StartedJobsEnabled
               /\ \A a \in last'.started : attempts'[a].idx = last'.idx
               /\ ~is_syncing_in(reload_config(m_syncing, Len(m_jobs')), last'.idx)
        /\ (last'.op = "sync_now" /\ last'.started = {}) =>
               is_syncing_in(reload_config(m_syncing, Len(m_jobs')), last'.idx)
      ]_vars

\* Sync Now has started an attempt while global sync is disabled
C33_Witness ==
    /\ last.op = "sync_now"
    /\ last.started # {}
    /\ ~m_enabled
    /\ \A a \in last.started : Busy(a) /\ m_jobs[attempts[a].idx].enabled

\* The fields of a job that the edit dialog shows
DialogFields ==
    {"server_url", "playlist_endpoint", "target_playlist", "enabled",
     "poll_interval_seconds"}

\* The page lists job i as the engine has it. With at most one edit made on
\* the page and as many jobs listed as the engine has, the job listed at i is
\* the engine's job i, not one removed and entered again.
ListedUnedited(i) ==
    /\ edits >= MaxEdits - 1
    /\ Len(page.m_jobs) = Len(m_jobs)
    /\ \A f \in DialogFields : page.m_jobs[i][f] = m_jobs[i][f]

\* A step in which the page applied its settings: apply itself or OnSyncNow
Applies(step) ==
    /\ page.open
    /\ page' = page
    /\ edits' = edits
    /\ step.op \in {"none", "sync_now"}

\* C35 (as stated): applying the preferences page leaves the last_hash of
\* every job the user did not remove as it was, so a fingerprint stored by an
\* attempt that completed while the page was open survives the apply.
C35_ApplyKeepsLastHash ==
    [][ Applies(last') =>
            \A i \in 1..Len(m_jobs) :
                ListedUnedited(i) => /\ i \in 1..Len(m_jobs')
                                     /\ m_jobs'[i].last_hash = m_jobs[i].last_hash ]_vars

----------------------------------------------------------------------------
(* Properties of the transport's threads, checked under SpecThreads *)

\* C29: a step of a worker thread makes its request with the URL copied when
\* the request was issued and changes only its own result: no job, flag,
\* observer list, playlist or attempt changes. Job data, flags, observers and
\* playlists are read and written only by the continuation, which is a step of
\* the main thread of its own, after its worker has handed over the result and
\* with that result, so it is never taken together with a tick, a sync_now or
\* an apply.
C29_ContinuationsOnMainThread ==
    [][ /\ (last'.op = "worker") =>
              /\ UNCHANGED <<configVars, m_syncing, m_callbacks, playlists,
                             attempts, page, m_tick_count, m_timer_id, pc>>
              /\ rc'.results[last'.slot].url = attempts[last'.slot].url
              /\ \A a \in Slots \ {last'.slot} : rc'.results[a] = rc.results[a]
        /\ Continuation(last') =>
              /\ rc.results[last'.slot].state = "answered"
              /\ rc.results[last'.slot].phase = last'.op
              /\ rc.results[last'.slot].success = last'.success
              /\ rc.results[last'.slot].response = last'.response
              /\ rc' = rc
              /\ UNCHANGED <<m_tick_count, m_timer_id, page, m_callbacks>>
        /\ (last'.op \notin {"post", "hash", "playlist", "worker"}) =>
              /\ rc' = rc
              /\ \A a \in Slots : Busy(a) =>
                     /\ attempts'[a].phase = attempts[a].phase
                     /\ attempts'[a].events = attempts[a].events
      ]_vars

\* A continuation has run with the result of a request whose URL is no longer
\* the job's: the page changed the job while the request was with the worker
C29_Witness ==
    /\ rc.state = "threads"
    /\ Continuation(last)
    /\ last.outcome # "stale"
    /\ rc.results[last.slot].state = "answered"
    /\ rc.results[last.slot].phase = last.op
    /\ rc.results[last.slot].url.endpoint # m_jobs[last.idx].playlist_endpoint

----------------------------------------------------------------------------
(* Properties of the observer fan-out, checked under SpecObserve *)

\* The steps of the engine, which are the ones that emit events
Emits(step) == step.op \in {"start", "on_timer", "sync_now", "post", "hash", "playlist"}

\* The events a step emitted: what a continuation added to the events of its
\* attempt, or the first events of the attempts a trigger started
Emitted ==
    IF Continuation(last')
    THEN SubSeq(last'.events, Len(attempts[last'.slot].events) + 1, Len(last'.events))
    ELSE StartedEvents([attempts |-> attempts'], 1)

----------------------------------------------------------------------------
(* Properties of update_playlist, checked under SpecReconcile *)

SameNoCase(a, b) == string_lower(a) = string_lower(b)

Occurs(path, paths) == \E i \in 1..Len(paths) : SameNoCase(paths[i], path)

LowerSet(paths) == {string_lower(paths[i]) : i \in 1..Len(paths)}

\* C8: for every local playlist L and every non-empty remote list R, after
\* update_playlist the target playlist exists and holds, first, exactly the
\* items of L whose path occurs in R, unchanged and in their old order, and
\* then only paths of R that did not occur in L, every such path among them;
\* paths are compared without regard to case, and the resulting path set is R.
C8_DiffCorrect ==
    rc.state = "done" /\ rc.remote # <<>> =>
        LET L == rc.local.items
            R == rc.remote
            target == playlists[m_jobs[1].target_playlist]
            result == target.items
            InR(x) == Occurs(x, R)
            kept == SelectSeq(L, InR)
        IN  /\ target.exists
            /\ Len(result) >= Len(kept)
            /\ SubSeq(result, 1, Len(kept)) = kept
            /\ \A i \in (Len(kept) + 1)..Len(result) :
                   Occurs(result[i], R) /\ ~Occurs(result[i], L)
            /\ \A i \in 1..Len(R) :
                   ~Occurs(R[i], L) =>
                       \E k \in (Len(kept) + 1)..Len(result) : result[k] = R[i]
            /\ LowerSet(result) = LowerSet(R)
            /\ \A n \in PlaylistNames :
                   n # m_jobs[1].target_playlist => playlists[n] = NoPlaylist

C8_Witness ==
    /\ rc.state = "done"
    /\ rc.local = Playlist(<< <<"A">>, <<"b">> >>)
    /\ rc.remote = << <<"a">>, <<"c">> >>
    /\ playlists[m_jobs[1].target_playlist] = Playlist(<< <<"A">>, <<"c">> >>)

\* The positions of the calls of one kind
CallsOf(calls, api) == {i \in 1..Len(calls) : calls[i].api = api}

\* C27: update_playlist removes with at most one playlist_remove_items call,
\* whose mask has one bit per item the playlist held before any change and
\* selects exactly the items whose path is not in the manifest; that call
\* comes before the playlist_add_locations call, and the two calls, made in
\* that order on the playlist as it was, give the playlist's new content.
C27_MaskBeforeInsertion ==
    rc.state = "done" /\ rc.remote # <<>> =>
        LET L == rc.local.items
            R == rc.remote
            removes == CallsOf(rc.calls, "playlist_remove_items")
            adds == CallsOf(rc.calls, "playlist_add_locations")
        IN  /\ Cardinality(removes) <= 1
            /\ Cardinality(adds) <= 1
            /\ removes \cup adds = 1..Len(rc.calls)
            /\ \A i \in removes : \A k \in adds : i < k
            /\ \A i \in removes :
                   /\ rc.calls[i].count = Len(L)
                   /\ rc.calls[i].mask = {n \in 1..Len(L) : ~Occurs(L[n], R)}
            /\ (removes = {}) <=> (\A n \in 1..Len(L) : Occurs(L[n], R))
            /\ run_calls(L, rc.calls) = playlists[m_jobs[1].target_playlist].items

\* One item is removed and one path is added
C27_Witness ==
    /\ rc.state = "done"
    /\ rc.local = Playlist(<< <<"c">>, <<"b">> >>)
    /\ rc.remote = << <<"a">>, <<"b">> >>
    /\ rc.calls = <<RemoveCall({1}, 2), AddCall(<< <<"a">> >>)>>
    /\ playlists[m_jobs[1].target_playlist] = Playlist(<< <<"b">>, <<"a">> >>)

\* C28: the paths a reconciliation adds are passed to one
\* playlist_add_locations call, in the order in which the manifest lists them;
\* the playlist then holds the surviving items in their old relative order,
\* followed by the added paths in that order.
C28_BulkAppendInManifestOrder ==
    rc.state = "done" /\ rc.remote # <<>> =>
        LET L == rc.local.items
            R == rc.remote
            InR(x) == Occurs(x, R)
            NotInL(x) == ~Occurs(x, L)
            kept == SelectSeq(L, InR)
            new == SelectSeq(R, NotInL)
            adds == CallsOf(rc.calls, "playlist_add_locations")
        IN  /\ Cardinality(adds) = (IF new = <<>> THEN 0 ELSE 1)
            /\ \A i \in adds : rc.calls[i].locations = new
            /\ playlists[m_jobs[1].target_playlist].items = kept \o new

\* Two paths are added behind a survivor, in the manifest's order, which is
\* not their sorted order
C28_Witness ==
    /\ rc.state = "done"
    /\ rc.local = Playlist(<< <<"b">> >>)
    /\ rc.remote = << <<"c">>, <<"a">> >>
    /\ playlists[m_jobs[1].target_playlist] = Playlist(<< <<"c">>, <<"a">> >>)

\* No two items of the list have the same path, compared without regard to case
NoDuplicates(items) ==
    \A i, k \in 1..Len(items) : SameNoCase(items[i], items[k]) => i = k

\* C34 (as stated): a reconciliation appends as many items as there are
\* distinct manifest paths, compared without regard to case, that the local
\* playlist lacks, also when the manifest lists a path on several lines; a
\* playlist without duplicates has none afterwards.
C34_EachMissingPathOnce ==
    rc.state = "done" /\ rc.remote # <<>> =>
        LET L == rc.local.items
            R == rc.remote
            result == playlists[m_jobs[1].target_playlist].items
            InR(x) == Occurs(x, R)
            kept == SelectSeq(L, InR)
            missing == {string_lower(R[i]) : i \in {k \in 1..Len(R) : ~Occurs(R[k], L)}}
        IN  /\ Len(result) - Len(kept) = Cardinality(missing)
            /\ NoDuplicates(L) => NoDuplicates(result)

----------------------------------------------------------------------------
(* parse_m3u8 and the path mapping on their own: a manifest text *)

\* The pieces manifest texts are made of
ParseTokens == {<<"a">>, <<HASH>>, <<SP>>, <<TAB>>, <<LF>>, <<CR>>, StreamPrefix}

RECURSIVE Flatten(_)
Flatten(tokens) ==
    IF tokens = <<>> THEN <<>> ELSE Head(tokens) \o Flatten(Tail(tokens))

ParseInit ==
    /\ cfg_enabled = TRUE
    /\ cfg_sync_jobs = <<write(JobA)>>
    /\ m_enabled = TRUE
    /\ m_jobs = <<JobA>>
    /\ m_syncing = <<FALSE>>
    /\ m_tick_count = 0
    /\ m_timer_id = 0
    /\ m_callbacks = <<>>
    /\ page = ClosedPage
    /\ playlists = [n \in PlaylistNames |-> NoPlaylist]
    /\ attempts = [a \in Slots |-> NoAttempt]
    /\ pc = "parse"
    /\ last = NoStep
    /\ edits = 0
    /\ \E tokens \in SeqsUpTo(ParseTokens, MaxTokens) :
         rc = [state |-> "input", content |-> Flatten(tokens), paths |-> <<>>]

parse ==
    /\ pc = "parse"
    /\ rc.state = "input"
    /\ rc' = [rc EXCEPT !.state = "done",
                        !.paths = file_paths(m_jobs[1], rc.content)]
    /\ UNCHANGED <<configVars, m_syncing, m_tick_count, m_timer_id, m_callbacks,
                   page, playlists, attempts, pc, last, edits>>

ParseNext == parse

SpecParse == ParseInit /\ [][ParseNext]_vars

(* Properties of the manifest parser, checked under SpecParse *)

\* The lines of a text: the pieces between line breaks
RECURSIVE RefSplit(_, _)
RefSplit(text, line) ==
    IF text = <<>> THEN <<line>>
    ELSE IF Head(text) \in {LF, CR}
         THEN <<line>> \o RefSplit(Tail(text), <<>>)
         ELSE RefSplit(Tail(text), Append(line, Head(text)))

RefKeep(line) == line # <<>> /\ line[1] # "#"

RefNonEmpty(line) == line # <<>>

\* The line without the run of the given character at its end
RefStrip(line, c) ==
    LET k == CHOOSE n \in 0..Len(line) :
                 /\ \A i \in (n + 1)..Len(line) : line[i] = c
                 /\ n = 0 \/ line[n] # c
    IN  SubSeq(line, 1, k)

RefResolve(line, url) ==
    IF Len(line) >= 8 /\ SubSeq(line, 1, 8) = <<"/", "s", "t", "r", "e", "a", "m", "/">>
    THEN url \o line ELSE line

\* C12 (as stated): the paths of a manifest are its lines in order, without the
\* empty lines and the lines starting with '#', a line starting with "/stream/"
\* with server_url in front and every other line unchanged.
C12_ParseEqualsReference ==
    rc.state = "done" =>
        LET lines == SelectSeq(RefSplit(rc.content, <<>>), RefKeep)
        IN  rc.paths = [i \in 1..Len(lines) |->
                           RefResolve(lines[i], m_jobs[1].server_url)]

\* C12 (amended): the same, except that each kept line first loses the spaces
\* at its end and then the tabs at its end, and is dropped if nothing remains.
C12_ParseEqualsTrimmedReference ==
    rc.state = "done" =>
        LET lines == SelectSeq(RefSplit(rc.content, <<>>), RefKeep)
            trimmed == [i \in 1..Len(lines) |-> RefStrip(RefStrip(lines[i], SP), TAB)]
            kept == SelectSeq(trimmed, RefNonEmpty)
        IN  rc.paths = [i \in 1..Len(kept) |->
                           RefResolve(kept[i], m_jobs[1].server_url)]

C12_Witness ==
    /\ rc.state = "done"
    /\ rc.content = StreamPrefix \o <<"a", SP, LF, "a">>
    /\ rc.paths = << ServerUrl \o StreamPrefix \o <<"a">>, <<"a">> >>


IsBlank(c) == c = SP \/ c = TAB

\* The line has a body: some character that is neither a space nor a tab
HasBody(line) == \E i \in 1..Len(line) : ~IsBlank(line[i])

\* C25 (as stated): when every non-empty line of the manifest is a non-blank
\* body followed by spaces and tabs in any number and order, no entry that
\* parse_m3u8 returns ends with a space or a tab.
C25_NoTrailingBlank ==
    (/\ rc.state = "done"
     /\ \A i \in 1..Len(RefSplit(rc.content, <<>>)) :
            LET line == RefSplit(rc.content, <<>>)[i]
            IN  line = <<>> \/ HasBody(line))
    => \A i \in 1..Len(rc.paths) :
           ~IsBlank(rc.paths[i][Len(rc.paths[i])])

\* What holds instead: an entry never ends with a tab, and it ends with a
\* space only if a tab followed that space in the line
TrailingTabsTrimmed ==
    rc.state = "done" =>
        \A i \in 1..Len(rc.paths) : rc.paths[i][Len(rc.paths[i])] # TAB

----------------------------------------------------------------------------
(* Properties of consecutive attempts, checked under SpecRetry *)

\* The attempts on job index j that ended before attempt a started
EndedBefore(att, a, j) ==
    {b \in 1..(a - 1) : att[b].phase = "done" /\ att[b].idx = j}

\* The last of them
Previous(att, a, j) ==
    att[CHOOSE b \in EndedBefore(att, a, j) :
            \A c \in EndedBefore(att, a, j) : c <= b]

\* The step delivers a fingerprint to an attempt whose job's previous attempt failed
ChecksAfterFailure ==
    /\ last'.op = "hash"
    /\ last'.success
    /\ last'.idx <= Len(m_jobs)
    /\ EndedBefore(attempts, last'.slot, last'.idx) # {}
    /\ Previous(attempts, last'.slot, last'.idx).failed

FailureRecorded ==
    (Continuation(last') /\ last'.outcome \in {"check_error", "download_error"}) =>
        /\ m_jobs'[last'.idx].last_error = TransportError
        /\ last'.events[Len(last'.events)] =
               on_sync_complete(last'.idx, "Error", m_syncing')

\* C19 (as stated): an attempt that ends with "Error" leaves the transport
\* error text in last_error, and if in that attempt the fingerprint differed
\* from last_hash or the playlist was missing, the job's next attempt, given
\* the same fingerprint, goes on to the download and does not end with
\* "OK (No Change)".
C19_RetrySameDelta ==
    [][ /\ FailureRecorded
        /\ ChecksAfterFailure =>
             LET prev == Previous(attempts, last'.slot, last'.idx)
             IN  (last'.response # prev.last_hash \/ prev.missing) =>
                     /\ last'.outcome = "continue"
                     /\ attempts'[last'.slot].phase = "playlist"
      ]_vars

\* C19 (amended): an attempt that ends with "Error" leaves the transport error
\* text in last_error and leaves last_hash and the playlists as they were; the
\* job's next attempt goes on to the download if the fingerprint differs from
\* the last_hash of the failed attempt, or if the playlist is still missing
\* when its check completes; if the playlist exists by then and the fingerprint
\* equals last_hash it ends with "OK (No Change)".
C19_RetryUnlessMaterialised ==
    [][ /\ FailureRecorded
        /\ (Continuation(last') /\ last'.outcome \in {"check_error", "download_error"})
              => /\ LastHashes(m_jobs') = LastHashes(m_jobs)
                 /\ playlists' = playlists
        /\ ChecksAfterFailure =>
             LET prev == Previous(attempts, last'.slot, last'.idx)
                 job == m_jobs[last'.idx]
                 exists == find_playlist(playlists, job.target_playlist)
             IN  /\ job.last_hash = prev.last_hash
                 /\ (last'.response # prev.last_hash \/ ~exists) =>
                        /\ last'.outcome = "continue"
                        /\ attempts'[last'.slot].phase = "playlist"
                 /\ (last'.response = prev.last_hash /\ exists) =>
                        last'.outcome = "no_change"
      ]_vars

C19_Witness ==
    /\ last.op = "hash"
    /\ last.outcome = "continue"
    /\ attempts[last.slot].phase = "playlist"
    /\ EndedBefore(attempts, last.slot, last.idx) # {}
    /\ Previous(attempts, last.slot, last.idx).failed
    /\ m_jobs[last.idx].last_error = TransportError

====
